---- MODULE Spec2Model ----
(***************************************************************************)
(* The timetable scheduler of chrone: TimetableScheduler                    *)
(* (server/services/scheduler.ts) over the timetable tables of             *)
(* DatabaseStorage (server/storage.ts).                                     *)
(*                                                                         *)
(* A call of the scheduler or of the storage layer is a record of          *)
(* calls[p]: its position (pc) and its local variables, named as in the    *)
(* source.  A call moves from one await to the next in one step;           *)
(* solveSchedule contains no await and is stepped through on its own, one  *)
(* loop iteration per step, while every other call waits (JavaScript runs  *)
(* it to completion).                                                      *)
(***************************************************************************)
EXTENDS Integers, Sequences, FiniteSets, TLC

VARIABLES
    classes,                 \* table classes: sequence of rows
    subjects,                \* table subjects
    teachers,                \* table teachers
    classSubjectAssignments, \* table class_subject_assignments
    timetableStructures,     \* table timetable_structures
    timetableVersions,       \* table timetable_versions, in creation order; id = index
    timetableEntries,        \* table timetable_entries, in insertion order
    now,                     \* the server's clock, in days
    timeSlots,               \* TimetableScheduler.timeSlots of the one scheduler instance
    calls                    \* the calls in progress, one record per caller

vars == <<classes, subjects, teachers, classSubjectAssignments, timetableStructures,
          timetableVersions, timetableEntries, now, timeSlots, calls>>

tables == <<classes, subjects, teachers, classSubjectAssignments, timetableStructures>>

-----------------------------------------------------------------------------
(* Bounds of the model *)

MaxConstraints == 2      \* constraints handed to one solveSchedule run
MaxPeriodsNeeded == 2    \* largest periodsNeeded / weeklyFrequency
MaxVersions == 3         \* rows of timetable_versions
MaxNow == 7              \* last day of the clock
MaxRaceVersions == 2     \* rows of timetable_versions while two requests race
MaxGridVersions == 2     \* rows of timetable_versions of the runs on two grids
MaxSchoolsVersions == 2  \* rows of timetable_versions of the runs of two schools
MaxEntries == 3          \* rows of timetable_entries under review
MaxFaultVersions == 2    \* rows of timetable_versions of the runs with throws
MaxTimeSlots == 42       \* slots of this.timeSlots after a caught throw

-----------------------------------------------------------------------------
(* Values *)

None == "none"           \* undefined / null

\* JavaScript parseInt on the strings the model splits out of a slot key: the
\* decimal strings of the periods parse to their number, anything else to NaN.
\* NaN is written as a number no period equals.
NaN == 0 - 1
ParseIntRange == 0..9
ParseInt(text) ==
    IF \E n \in ParseIntRange : ToString(n) = text
    THEN CHOOSE n \in ParseIntRange : ToString(n) = text
    ELSE NaN

\* Ids are strings; a class id is kept as its dash-separated segments, because
\* solveSchedule splits its slot keys at the dashes.  The classes table has uuid
\* ids (five segments).
ClassA == <<"3f2a9c1e", "7b4d", "4e6a", "9c1f", "a1b2c3d4e5f6">>
ClassB == <<"8d5e0b72", "1c3a", "4f9b", "b2e8", "0f1e2d3c4b5a">>
\* A class id without dashes, as a caller of solveSchedule may hand in.
ClassP == <<"classP">>
\* A uuid that is no row of the classes table.
ClassC == <<"c0ffee00", "2d4b", "4a7c", "8e1d", "5a6b7c8d9e0f">>
\* No class id given.
NoClass == <<>>

WeekDays == <<"monday", "tuesday", "wednesday", "thursday", "friday">>
AllDays == {"monday", "tuesday", "wednesday", "thursday", "friday", "saturday"}

\* The eight default periods of the scheduler.
periodTimes ==
    << [period |-> 1, startTime |-> "08:00", endTime |-> "08:45"],
       [period |-> 2, startTime |-> "08:45", endTime |-> "09:30"],
       [period |-> 3, startTime |-> "09:30", endTime |-> "10:15"],
       [period |-> 4, startTime |-> "10:15", endTime |-> "11:00"],
       [period |-> 5, startTime |-> "11:15", endTime |-> "12:00"],
       [period |-> 6, startTime |-> "12:00", endTime |-> "12:45"],
       [period |-> 7, startTime |-> "12:45", endTime |-> "13:30"],
       [period |-> 8, startTime |-> "13:30", endTime |-> "14:15"] >>

\* for (day of days) for (slot of slots) push: day-major, slot-minor.
DayMajor(days, slots) ==
    [i \in 1..(Len(days) * Len(slots)) |->
        [day       |-> days[((i - 1) \div Len(slots)) + 1],
         period    |-> slots[((i - 1) % Len(slots)) + 1].period,
         startTime |-> slots[((i - 1) % Len(slots)) + 1].startTime,
         endTime   |-> slots[((i - 1) % Len(slots)) + 1].endTime]]

\* initializeTimeSlots pushes the default grid onto this.timeSlots without
\* clearing it.
initializeTimeSlots(current) == current \o DayMajor(WeekDays, periodTimes)

IsNotBreak(slot) == ~slot.isBreak

\* The grid initializeFromStructure builds from a structure it found (the columns
\* workingDays and timeSlots are NOT NULL, so the || defaults are never taken).
timeSlotsOfStructure(structure) ==
    DayMajor(structure.workingDays, SelectSeq(structure.timeSlots, IsNotBreak))

-----------------------------------------------------------------------------
(* solveSchedule *)

\* `${classId}-${day}-${period}`: equal strings for equal triples only, as day
\* names and period numbers hold no dash.
SlotKey(classId, timeSlot) ==
    [classId |-> classId, day |-> timeSlot.day, period |-> timeSlot.period]

\* slotKey.split('-')
Split(slotKey) == slotKey.classId \o <<slotKey.day, ToString(slotKey.period)>>

\* dailySubjectCount.get(`${classId}-${day}`)?.get(subjectId) || 0
getDailySubjectCount(dailySubjectCount, classId, day, subjectId) ==
    LET k == <<classId, day, subjectId>>
    IN  IF k \in DOMAIN dailySubjectCount THEN dailySubjectCount[k] ELSE 0

incrementDailySubjectCount(dailySubjectCount, classId, day, subjectId) ==
    LET k == <<classId, day, subjectId>>
        n == getDailySubjectCount(dailySubjectCount, classId, day, subjectId)
    IN  [x \in DOMAIN dailySubjectCount \cup {k} |->
            IF x = k THEN n + 1 ELSE dailySubjectCount[x]]

\* The daily limit of a subject for a class.
DailyLimit == 2

\* The filter without its test of isActive.
QualifiedInactive(teacher, subjectId) == subjectId \in teacher.subjects

\* teachers.filter(t => t.subjects.includes(subjectId) && t.isActive)
Qualified(teacher, subjectId) == subjectId \in teacher.subjects /\ teacher.isActive

\* The qualified teachers, the preferred ones not looked at.
EligibleTeachersUnnarrowed(roster, constraint) ==
    SelectSeq(roster, LAMBDA t : Qualified(t, constraint.subjectId))

\* The eligible teachers of a constraint: the qualified ones, narrowed to the
\* preferred ones among them if there is any.
EligibleTeachers(roster, constraint) ==
    LET IsQualified(t) == Qualified(t, constraint.subjectId)
        qualified == SelectSeq(roster, IsQualified)
        IsPreferred(t) == \E i \in 1..Len(constraint.preferredTeachers) :
                              constraint.preferredTeachers[i] = t.id
        assigned == SelectSeq(qualified, IsPreferred)
    IN  IF Len(constraint.preferredTeachers) > 0 /\ Len(assigned) > 0
        THEN assigned
        ELSE qualified

\* The loop over assignments.keys() inside the find callback: is the teacher in
\* the set of a key whose second and third segment are this day and period?
AssignedInSlot(assignments, teacher, timeSlot) ==
    \E slotKey \in DOMAIN assignments :
        /\ Split(slotKey)[2] = timeSlot.day
        /\ ParseInt(Split(slotKey)[3]) = timeSlot.period
        /\ teacher.id \in assignments[slotKey]

\* The callback of eligibleTeachers.find.
TeacherAvailable(assignments, teacher, timeSlot) ==
    LET teacherAvailability ==
            IF timeSlot.day \in DOMAIN teacher.availability
            THEN teacher.availability[timeSlot.day]
            ELSE {}
    IN  IF teacherAvailability = {} THEN TRUE
        ELSE IF <<timeSlot.startTime, timeSlot.endTime>> \notin teacherAvailability
             THEN FALSE
             ELSE ~AssignedInSlot(assignments, teacher, timeSlot)

\* The find that gives up after the first eligible teacher.
FindFirstTeacherOnly(assignments, eligibleTeachers, timeSlot) ==
    IF /\ Len(eligibleTeachers) > 0
       /\ TeacherAvailable(assignments, eligibleTeachers[1], timeSlot)
    THEN <<eligibleTeachers[1]>>
    ELSE <<>>

\* eligibleTeachers.find(...): the first in roster order as <<teacher>>, or <<>>
\* for undefined.
FindAvailableTeacher(assignments, eligibleTeachers, timeSlot) ==
    LET hits == {i \in 1..Len(eligibleTeachers) :
                    TeacherAvailable(assignments, eligibleTeachers[i], timeSlot)}
    IN  IF hits = {} THEN <<>>
        ELSE <<eligibleTeachers[CHOOSE i \in hits : \A j \in hits : i <= j]>>

\* The check of the class's slot left out.
SlotOccupiedNever(assignments, slotKey) == FALSE

\* assignments.has(slotKey)
SlotOccupied(assignments, slotKey) == slotKey \in DOMAIN assignments

\* The limit compared with > for >=.
DailyLimitReachedLate(currentDailyCount) == currentDailyCount > DailyLimit

\* currentDailyCount >= 2
DailyLimitReached(currentDailyCount) == currentDailyCount >= DailyLimit

\* [...constraints].sort(() => Math.random() - 0.5): the comparator is random,
\* so the result is whatever order the sort leaves, any permutation.
ShuffledOrders(constraints) ==
    {[i \in 1..Len(constraints) |-> constraints[perm[i]]] :
        perm \in Permutations(1..Len(constraints))}

\* The comparator of prioritizedTimeSlots: negative, zero or positive when the
\* counts differ, random when they are equal.  aCount and bCount are read from
\* dailySubjectCount at the time of the sort.
CountOrdered(aCount, bCount) == aCount <= bCount

\* [...this.timeSlots].sort(comparator) and the walk over the result: the sort
\* leaves any order of the grid in which no slot comes before one whose day had
\* fewer periods of the subject when the sort ran, slots of equal count in random
\* order.  The order is unfolded as the walk goes: of the grid positions the walk
\* has left, the next is any whose count at the time of the sort is least.
PrioritizedOrders(grid, left, countsAtSort, constraint) ==
    LET count(i) == getDailySubjectCount(countsAtSort, constraint.classId,
                                         grid[i].day, constraint.subjectId)
    IN  {i \in left : \A j \in left : CountOrdered(count(i), count(j))}

\* The find that takes any subject id as found.
SubjectResolvesAlways(subjectList, subjectId) == TRUE

\* subjects.find(s => s.id === constraint.subjectId)
SubjectResolves(subjectList, subjectId) ==
    \E i \in 1..Len(subjectList) : subjectList[i].id = subjectId

\* The entry pushed onto schedule.
NewEntry(constraint, teacher, timeSlot) ==
    [classId   |-> constraint.classId,
     teacherId |-> teacher.id,
     subjectId |-> constraint.subjectId,
     day       |-> timeSlot.day,
     period    |-> timeSlot.period,
     startTime |-> timeSlot.startTime,
     endTime   |-> timeSlot.endTime,
     room      |-> None,
     versionId |-> None,
     isActive  |-> TRUE]

NoConstraint == [classId |-> NoClass, subjectId |-> None, periodsNeeded |-> 0,
                 preferredTeachers |-> <<>>]

\* The locals of a call that is not running.
NoResult == [success |-> FALSE, message |-> None, entriesCreated |-> None, version |-> None]

\* No { isValid, conflicts } yet (a returned one with isValid false has conflicts).
NoValidation == [isValid |-> FALSE, conflicts |-> <<>>]

IdleCall ==
    [op |-> "idle", pc |-> "idle",
     \* generateTimetable
     classId |-> NoClass, userSchoolId |-> None, classes |-> <<>>, schoolId |-> None,
     weekStart |-> 0, weekEnd |-> 0, i |-> 1, existingVersions |-> <<>>,
     newVersion |-> None, versionsCreated |-> <<>>, scheduleWithVersions |-> <<>>,
     result |-> NoResult,
     \* setActiveVersion
     versionId |-> None, savClassId |-> NoClass, savWeekStart |-> 0, savWeekEnd |-> 0,
     \* bulkCreateTimetableEntries
     classIds |-> <<>>,
     \* the tables as the call found them
     versionsBefore |-> <<>>, entriesBefore |-> <<>>,
     \* solveSchedule
     constraints |-> <<>>, teachers |-> <<>>, subjects |-> <<>>,
     shuffledConstraints |-> <<>>, constraint |-> NoConstraint,
     eligibleTeachers |-> <<>>, prioritizedTimeSlots |-> {}, countsAtSort |-> <<>>,
     periodsScheduled |-> 0,
     schedule |-> <<>>, assignments |-> <<>>, dailySubjectCount |-> <<>>,
     \* validateTimetable and suggestOptimizations
     timetableEntries |-> <<>>, conflicts |-> <<>>, validation |-> NoValidation,
     earlier |-> NoValidation, suggestions |-> <<>>,
     \* catch (error); console.warn of initializeFromStructure
     error |-> FALSE, warned |-> FALSE]

\* JavaScript runs solveSchedule to completion: while a call is inside it no
\* other call takes a step.
InSolver(c) == c.pc \in {"forConstraint", "forTimeSlot"}
MayStep(p) == \A q \in DOMAIN calls : q # p => ~InSolver(calls[q])

\* solveSchedule, lines 265-287: the empty maps and the shuffle.
solveSchedule(p) ==
    /\ calls[p].pc = "solveSchedule"
    /\ MayStep(p)
    /\ \E shuffled \in ShuffledOrders(calls[p].constraints) :
          calls' = [calls EXCEPT ![p].pc = "forConstraint",
                                 ![p].shuffledConstraints = shuffled,
                                 ![p].schedule = <<>>,
                                 ![p].assignments = <<>>,
                                 ![p].dailySubjectCount = <<>>]
    /\ UNCHANGED <<tables, timetableVersions, timetableEntries, now, timeSlots>>

\* for (const constraint of shuffledConstraints), lines 289-332: the next
\* constraint, its eligible teachers and the sort of its copy of the grid (all
\* positions of the grid are left to walk); or the return of the schedule when
\* none is left.
forConstraint(p) ==
    /\ calls[p].pc = "forConstraint"
    /\ LET c == calls[p] IN
       IF c.shuffledConstraints = <<>>
       THEN calls' = [calls EXCEPT ![p].pc = IF c.op = "solveSchedule"
                                             THEN "done" ELSE "solved"]
       ELSE LET constraint == Head(c.shuffledConstraints)
                eligible == EligibleTeachers(c.teachers, constraint)
            IN  IF \/ ~SubjectResolves(c.subjects, constraint.subjectId)
                   \/ Len(eligible) = 0
                THEN calls' = [calls EXCEPT
                                 ![p].shuffledConstraints = Tail(c.shuffledConstraints)]
                ELSE calls' = [calls EXCEPT
                                 ![p].pc = "forTimeSlot",
                                 ![p].shuffledConstraints = Tail(c.shuffledConstraints),
                                 ![p].constraint = constraint,
                                 ![p].eligibleTeachers = eligible,
                                 ![p].periodsScheduled = 0,
                                 ![p].prioritizedTimeSlots = DOMAIN timeSlots,
                                 ![p].countsAtSort = c.dailySubjectCount]
    /\ UNCHANGED <<tables, timetableVersions, timetableEntries, now, timeSlots>>

\* for (const timeSlot of prioritizedTimeSlots), lines 334-397: one iteration.
forTimeSlot(p) ==
    /\ calls[p].pc = "forTimeSlot"
    /\ LET c == calls[p] IN
       IF \/ c.prioritizedTimeSlots = {}
          \/ c.periodsScheduled >= c.constraint.periodsNeeded
       THEN calls' = [calls EXCEPT ![p].pc = "forConstraint",
                                   ![p].prioritizedTimeSlots = {},
                                   ![p].countsAtSort = <<>>,
                                   ![p].eligibleTeachers = <<>>]
       ELSE \E next \in PrioritizedOrders(timeSlots, c.prioritizedTimeSlots,
                                          c.countsAtSort, c.constraint) :
            LET timeSlot == timeSlots[next]
                slotKey == SlotKey(c.constraint.classId, timeSlot)
                currentDailyCount ==
                    getDailySubjectCount(c.dailySubjectCount, c.constraint.classId,
                                         timeSlot.day, c.constraint.subjectId)
                availableTeacher ==
                    FindAvailableTeacher(c.assignments, c.eligibleTeachers, timeSlot)
            IN  IF \/ SlotOccupied(c.assignments, slotKey)
                   \/ DailyLimitReached(currentDailyCount)
                   \/ availableTeacher = <<>>
                THEN calls' = [calls EXCEPT
                                 ![p].prioritizedTimeSlots = c.prioritizedTimeSlots \ {next}]
                ELSE calls' = [calls EXCEPT
                       ![p].prioritizedTimeSlots = c.prioritizedTimeSlots \ {next},
                       ![p].assignments =
                           [k \in DOMAIN c.assignments \cup {slotKey} |->
                               IF k = slotKey THEN {availableTeacher[1].id}
                               ELSE c.assignments[k]],
                       ![p].dailySubjectCount =
                           incrementDailySubjectCount(c.dailySubjectCount,
                               c.constraint.classId, timeSlot.day, c.constraint.subjectId),
                       ![p].schedule =
                           Append(c.schedule, NewEntry(c.constraint, availableTeacher[1], timeSlot)),
                       ![p].periodsScheduled = c.periodsScheduled + 1]
    /\ UNCHANGED <<tables, timetableVersions, timetableEntries, now, timeSlots>>

-----------------------------------------------------------------------------
(* DatabaseStorage: the queries and statements of the timetable operations *)

\* getClass(id): the rows with this id (at most one).
getClass(id) == SelectSeq(classes, LAMBDA c : c.id = id)

\* getTeachers(schoolId): the active teachers of the school.
getTeachers(schoolId) ==
    SelectSeq(teachers, LAMBDA t : t.isActive /\ t.schoolId = schoolId)

\* getTimetableStructureBySchool(schoolId): the active structures of the school;
\* the caller takes the first.
getTimetableStructureBySchool(schoolId) ==
    SelectSeq(timetableStructures, LAMBDA r : r.schoolId = schoolId /\ r.isActive)

\* getClassSubjectAssignments(classId): the assignments of the class whose subject
\* exists (inner join with subjects).
getClassSubjectAssignments(classId) ==
    SelectSeq(classSubjectAssignments,
              LAMBDA a : a.classId = classId /\ SubjectResolves(subjects, a.subjectId))

\* The week left out of the condition.
SameClassAnyWeek(v, classId, weekStart, weekEnd) == v.classId = classId

SameWeek(v, classId, weekStart, weekEnd) ==
    v.classId = classId /\ v.weekStart = weekStart /\ v.weekEnd = weekEnd

\* getTimetableVersionsForClass(classId, weekStart, weekEnd), in createdAt order.
getTimetableVersionsForClass(versions, classId, weekStart, weekEnd) ==
    SelectSeq(versions, LAMBDA v : SameWeek(v, classId, weekStart, weekEnd))

\* createTimetableVersion: the row inserted; its id is new.
createTimetableVersion(versions, version) ==
    Append(versions, [id        |-> ToString(Len(versions) + 1),
                      classId   |-> version.classId,
                      version   |-> version.version,
                      weekStart |-> version.weekStart,
                      weekEnd   |-> version.weekEnd,
                      isActive  |-> version.isActive])

\* select ... where id = versionId limit 1
SelectVersion(versions, versionId) == SelectSeq(versions, LAMBDA v : v.id = versionId)

\* update timetable_versions set isActive = false where classId, weekStart, weekEnd
DeactivateVersions(versions, classId, weekStart, weekEnd) ==
    [n \in 1..Len(versions) |->
        IF SameWeek(versions[n], classId, weekStart, weekEnd)
        THEN [versions[n] EXCEPT !.isActive = FALSE]
        ELSE versions[n]]

\* The update that activates nothing.
ActivateVersionNever(versions, versionId) == versions

\* update timetable_versions set isActive = true where id = versionId
ActivateVersion(versions, versionId) ==
    [n \in 1..Len(versions) |->
        IF versions[n].id = versionId
        THEN [versions[n] EXCEPT !.isActive = TRUE]
        ELSE versions[n]]

\* select count(*) ... where classId, weekStart, weekEnd, isActive = true
ActiveCount(versions, classId, weekStart, weekEnd) ==
    Cardinality({n \in 1..Len(versions) :
                    SameWeek(versions[n], classId, weekStart, weekEnd) /\ versions[n].isActive})

\* update timetable_entries set isActive = false where classId = classId
DeactivateEntries(entries, classId) ==
    [n \in 1..Len(entries) |->
        IF entries[n].classId = classId
        THEN [entries[n] EXCEPT !.isActive = FALSE]
        ELSE entries[n]]

\* Array.from(new Set(list)): the distinct elements in the order they first occur.
RECURSIVE Distinct(_)
Distinct(list) ==
    IF list = <<>> THEN <<>>
    ELSE <<Head(list)>> \o Distinct(SelectSeq(Tail(list), LAMBDA x : x # Head(list)))

-----------------------------------------------------------------------------
(* setActiveVersion(versionId, classId), one statement per step *)

\* What a call keeps when it has returned: its arguments, what it produced and
\* the tables as it found them.
Finished(c) ==
    [IdleCall EXCEPT !.op = c.op, !.pc = "done",
                     !.classId = c.classId, !.userSchoolId = c.userSchoolId,
                     !.classes = c.classes, !.versionsCreated = c.versionsCreated,
                     !.schedule = c.schedule, !.result = c.result,
                     !.versionId = c.versionId, !.savClassId = c.savClassId,
                     !.versionsBefore = c.versionsBefore, !.entriesBefore = c.entriesBefore,
                     !.timetableEntries = c.timetableEntries,
                     !.validation = c.validation, !.earlier = c.earlier,
                     !.suggestions = c.suggestions, !.error = c.error,
                     !.warned = c.warned]

\* The end of setActiveVersion: the call is over, or generateTimetable goes on
\* with line 184: versionsCreated.push and the next class.
AfterSetActiveVersion(c) ==
    IF c.op = "setActiveVersion"
    THEN Finished(c)
    ELSE [c EXCEPT !.pc = "forClass",
                   !.versionsCreated =
                       Append(c.versionsCreated,
                              [classId |-> c.classes[c.i].id,
                               version |-> <<"v0.", Len(c.existingVersions) + 1>>,
                               versionId |-> c.newVersion]),
                   !.i = c.i + 1,
                   !.existingVersions = <<>>, !.newVersion = None,
                   !.versionId = None, !.savClassId = NoClass,
                   !.savWeekStart = 0, !.savWeekEnd = 0]

Quiet(p) == calls[p].pc = "idle"

\* The caller takes the result of a call that has returned.
Return(p) ==
    /\ calls[p].pc = "done"
    /\ calls' = [calls EXCEPT ![p] = IdleCall]
    /\ UNCHANGED <<tables, timetableVersions, timetableEntries, now, timeSlots>>

\* The route POST /api/timetable-versions/:id/activate hands id and classId on as
\* they come.
activate(p, versionId, classId) ==
    /\ Quiet(p)
    /\ calls' = [calls EXCEPT ![p] =
                    [IdleCall EXCEPT !.op = "setActiveVersion", !.pc = "selectVersion",
                                     !.versionId = versionId, !.savClassId = classId,
                                     !.versionsBefore = timetableVersions,
                                     !.entriesBefore = timetableEntries]]
    /\ UNCHANGED <<tables, timetableVersions, timetableEntries, now, timeSlots>>

\* storage.ts 536-543: the version's week, if the version exists.
selectVersion(p) ==
    /\ calls[p].pc = "selectVersion"
    /\ MayStep(p)
    /\ LET c == calls[p]
           version == SelectVersion(timetableVersions, c.versionId)
       IN  IF Len(version) > 0
           THEN calls' = [calls EXCEPT ![p].pc = "deactivateVersions",
                                       ![p].savWeekStart = version[1].weekStart,
                                       ![p].savWeekEnd = version[1].weekEnd]
           ELSE calls' = [calls EXCEPT ![p] = AfterSetActiveVersion(c)]
    /\ UNCHANGED <<tables, timetableVersions, timetableEntries, now, timeSlots>>

\* storage.ts 546-555
deactivateVersions(p) ==
    /\ calls[p].pc = "deactivateVersions"
    /\ MayStep(p)
    /\ LET c == calls[p] IN
       timetableVersions' = DeactivateVersions(timetableVersions, c.savClassId,
                                               c.savWeekStart, c.savWeekEnd)
    /\ calls' = [calls EXCEPT ![p].pc = "activateVersion"]
    /\ UNCHANGED <<tables, timetableEntries, now, timeSlots>>

\* storage.ts 558-561
activateVersion(p) ==
    /\ calls[p].pc = "activateVersion"
    /\ MayStep(p)
    /\ timetableVersions' = ActivateVersion(timetableVersions, calls[p].versionId)
    /\ calls' = [calls EXCEPT ![p].pc = "countActive"]
    /\ UNCHANGED <<tables, timetableEntries, now, timeSlots>>

\* storage.ts 564-576: the safety check.
countActive(p) ==
    /\ calls[p].pc = "countActive"
    /\ MayStep(p)
    /\ LET c == calls[p] IN
       IF ActiveCount(timetableVersions, c.savClassId, c.savWeekStart, c.savWeekEnd) > 1
       THEN calls' = [calls EXCEPT ![p].pc = "forceDeactivate"]
       ELSE calls' = [calls EXCEPT ![p] = AfterSetActiveVersion(c)]
    /\ UNCHANGED <<tables, timetableVersions, timetableEntries, now, timeSlots>>

\* storage.ts 579-588: the force fix, first statement.
forceDeactivate(p) ==
    /\ calls[p].pc = "forceDeactivate"
    /\ MayStep(p)
    /\ LET c == calls[p] IN
       timetableVersions' = DeactivateVersions(timetableVersions, c.savClassId,
                                               c.savWeekStart, c.savWeekEnd)
    /\ calls' = [calls EXCEPT ![p].pc = "forceActivate"]
    /\ UNCHANGED <<tables, timetableEntries, now, timeSlots>>

\* storage.ts 589-592: the force fix, second statement.
forceActivate(p) ==
    /\ calls[p].pc = "forceActivate"
    /\ MayStep(p)
    /\ timetableVersions' = ActivateVersion(timetableVersions, calls[p].versionId)
    /\ calls' = [calls EXCEPT ![p] = AfterSetActiveVersion(calls[p])]
    /\ UNCHANGED <<tables, timetableEntries, now, timeSlots>>

-----------------------------------------------------------------------------
(* generateTimetable(classId, userSchoolId), from one await to the next *)

\* Date.getDay() of a day of the clock; day 0 is a sunday.
getDay(d) == d % 7
\* startOfWeek.setDate(now.getDate() - now.getDay() + 1)
StartOfWeek(d) == d - getDay(d) + 1
\* endOfWeek.setDate(startOfWeek.getDate() + 5)
EndOfWeek(d) == StartOfWeek(d) + 5

Failure(message) ==
    [success |-> FALSE, message |-> message, entriesCreated |-> None, version |-> None]

\* return { success: false, message }
Fail(c, message) == Finished([c EXCEPT !.result = Failure(message)])

\* The teachers left out of the check.
RosterMissingButTeachers(classList, subjectList, teacherList) ==
    Len(classList) = 0 \/ Len(subjectList) = 0

\* lines 140-145: nothing to schedule with.
RosterMissing(classList, subjectList, teacherList) ==
    Len(classList) = 0 \/ Len(subjectList) = 0 \/ Len(teacherList) = 0

\* The check of the empty schedule left out.
NothingScheduledIgnored(schedule) == FALSE

\* line 197: the solver placed nothing.
NothingScheduled(schedule) == Len(schedule) = 0

\* The route POST /api/timetable/generate: classId of the request body, schoolId
\* of the user.
generateTimetable(p, classId, userSchoolId) ==
    /\ Quiet(p)
    /\ Len(timetableVersions) + (IF classId = NoClass THEN Len(classes) ELSE 1) <= MaxVersions
    /\ calls' = [calls EXCEPT ![p] =
                    [IdleCall EXCEPT !.op = "generateTimetable", !.pc = "getClasses",
                                     !.classId = classId, !.userSchoolId = userSchoolId,
                                     !.versionsBefore = timetableVersions,
                                     !.entriesBefore = timetableEntries]]
    /\ UNCHANGED <<tables, timetableVersions, timetableEntries, now, timeSlots>>

\* lines 97-131: the classes of the run and their school.
getClasses(p) ==
    /\ calls[p].pc = "getClasses"
    /\ MayStep(p)
    /\ LET c == calls[p]
           found == IF c.classId # NoClass
                    THEN getClass(c.classId)
                    ELSE SelectSeq(classes, LAMBDA cls : cls.schoolId = c.userSchoolId)
       IN  IF c.classId # NoClass /\ Len(found) = 0
           THEN calls' = [calls EXCEPT ![p] = Fail(c, "Class not found.")]
           ELSE IF c.classId = NoClass /\ c.userSchoolId = None
           THEN calls' = [calls EXCEPT ![p] =
                            Fail(c, "Please generate timetable for specific classes.")]
           ELSE IF Len(found) = 0
           THEN calls' = [calls EXCEPT ![p] =
                            Fail(c, "Classes must be associated with a school.")]
           ELSE calls' = [calls EXCEPT ![p].pc = "getRosters",
                                       ![p].classes = found,
                                       ![p].schoolId = found[1].schoolId]
    /\ UNCHANGED <<tables, timetableVersions, timetableEntries, now, timeSlots>>

\* lines 133-145: all subjects, the active teachers of the school.
getRosters(p) ==
    /\ calls[p].pc = "getRosters"
    /\ MayStep(p)
    /\ LET c == calls[p]
           teacherList == getTeachers(c.schoolId)
       IN  IF RosterMissing(c.classes, subjects, teacherList)
           THEN calls' = [calls EXCEPT ![p] =
                   Fail(c, "Please ensure you have added classes, subjects, and teachers before generating timetable.")]
           ELSE calls' = [calls EXCEPT ![p].pc = "initializeFromStructure",
                                       ![p].subjects = subjects,
                                       ![p].teachers = teacherList]
    /\ UNCHANGED <<tables, timetableVersions, timetableEntries, now, timeSlots>>

\* lines 26-59 and 148-160: the grid of the school's structure replaces
\* this.timeSlots, or this.timeSlots stays as it is when the school has none; then
\* the week of the clock.
initializeFromStructure(p) ==
    /\ calls[p].pc = "initializeFromStructure"
    /\ MayStep(p)
    /\ LET structure == getTimetableStructureBySchool(calls[p].schoolId)
       IN  timeSlots' = IF Len(structure) > 0
                        THEN timeSlotsOfStructure(structure[1])
                        ELSE timeSlots
    /\ calls' = [calls EXCEPT ![p].pc = "forClass",
                              ![p].weekStart = StartOfWeek(now),
                              ![p].weekEnd = EndOfWeek(now),
                              ![p].i = 1,
                              ![p].versionsCreated = <<>>]
    /\ UNCHANGED <<tables, timetableVersions, timetableEntries, now>>

\* lines 163-165 and 192: the versions of the next class in this week; after the
\* last class, the constraints of the classes (buildConstraints, lines 237-258).
forClass(p) ==
    /\ calls[p].pc = "forClass"
    /\ MayStep(p)
    /\ LET c == calls[p] IN
       IF c.i <= Len(c.classes)
       THEN calls' = [calls EXCEPT
                        ![p].pc = "createTimetableVersion",
                        ![p].existingVersions =
                            getTimetableVersionsForClass(timetableVersions, c.classes[c.i].id,
                                                         c.weekStart, c.weekEnd)]
       ELSE calls' = [calls EXCEPT ![p].pc = "buildConstraints"]
    /\ UNCHANGED <<tables, timetableVersions, timetableEntries, now, timeSlots>>

\* lines 168-182: the new version, inserted active; then setActiveVersion.
createTimetableVersionStep(p) ==
    /\ calls[p].pc = "createTimetableVersion"
    /\ MayStep(p)
    /\ LET c == calls[p]
           newVersionNumber == Len(c.existingVersions) + 1
           created == createTimetableVersion(timetableVersions,
                          [classId   |-> c.classes[c.i].id,
                           version   |-> <<"v0.", newVersionNumber>>,
                           weekStart |-> c.weekStart,
                           weekEnd   |-> c.weekEnd,
                           isActive  |-> TRUE])
       IN  /\ timetableVersions' = created
           /\ calls' = [calls EXCEPT ![p].pc = "selectVersion",
                                     ![p].newVersion = created[Len(created)].id,
                                     ![p].versionId = created[Len(created)].id,
                                     ![p].savClassId = c.classes[c.i].id]
    /\ UNCHANGED <<tables, timetableEntries, now, timeSlots>>

\* buildConstraints, one constraint per assignment of a class.
ConstraintOf(classId, assignment) ==
    [classId           |-> classId,
     subjectId         |-> assignment.subjectId,
     periodsNeeded     |-> assignment.weeklyFrequency,
     preferredTeachers |-> IF assignment.assignedTeacherId # None
                           THEN <<assignment.assignedTeacherId>> ELSE <<>>]

RECURSIVE ConstraintsOfClasses(_)
ConstraintsOfClasses(classList) ==
    IF classList = <<>> THEN <<>>
    ELSE LET assignments == getClassSubjectAssignments(Head(classList).id)
         IN  [n \in 1..Len(assignments) |-> ConstraintOf(Head(classList).id, assignments[n])]
             \o ConstraintsOfClasses(Tail(classList))

\* lines 237-258, then the call of solveSchedule (line 195).  The tables read
\* here do not change during a run.
buildConstraints(p) ==
    /\ calls[p].pc = "buildConstraints"
    /\ MayStep(p)
    /\ calls' = [calls EXCEPT ![p].pc = "solveSchedule",
                              ![p].constraints = ConstraintsOfClasses(calls[p].classes)]
    /\ UNCHANGED <<tables, timetableVersions, timetableEntries, now, timeSlots>>

\* Each entry gets the first version of the run.
StampFirstVersion(entry, versionsCreated) ==
    IF Len(versionsCreated) = 0 THEN entry
    ELSE [entry EXCEPT !.versionId = versionsCreated[1].versionId]

\* lines 205-215: each entry gets the version created for its class in this run.
StampVersion(entry, versionsCreated) ==
    LET hits == {n \in 1..Len(versionsCreated) : versionsCreated[n].classId = entry.classId}
    IN  IF hits = {} THEN entry
        ELSE [entry EXCEPT !.versionId =
                 versionsCreated[CHOOSE n \in hits : \A m \in hits : n <= m].versionId]

\* lines 197-218: failure when the solver placed nothing; else the stamped entries
\* go to bulkCreateTimetableEntries (storage.ts 490-494).
afterSolve(p) ==
    /\ calls[p].pc = "solved"
    /\ MayStep(p)
    /\ LET c == calls[p] IN
       IF NothingScheduled(c.schedule)
       THEN calls' = [calls EXCEPT ![p] =
               Fail(c, "Unable to generate a valid timetable with current constraints. Please check teacher availability and subject requirements.")]
       ELSE LET stamped == [n \in 1..Len(c.schedule) |->
                               StampVersion(c.schedule[n], c.versionsCreated)]
            IN  calls' = [calls EXCEPT
                   ![p].pc = "deactivateEntries",
                   ![p].scheduleWithVersions = stamped,
                   ![p].classIds = Distinct([n \in 1..Len(stamped) |-> stamped[n].classId])]
    /\ UNCHANGED <<tables, timetableVersions, timetableEntries, now, timeSlots>>

\* storage.ts 495-502: the entries of the next class of the batch are deactivated.
deactivateEntries(p) ==
    /\ calls[p].pc = "deactivateEntries"
    /\ MayStep(p)
    /\ calls[p].classIds # <<>>
    /\ timetableEntries' = DeactivateEntries(timetableEntries, Head(calls[p].classIds))
    /\ calls' = [calls EXCEPT ![p].classIds = Tail(calls[p].classIds)]
    /\ UNCHANGED <<tables, timetableVersions, now, timeSlots>>

\* storage.ts 504 and scheduler.ts 220-227: the insert, and success.
insertEntries(p) ==
    /\ calls[p].pc = "deactivateEntries"
    /\ MayStep(p)
    /\ calls[p].classIds = <<>>
    /\ LET c == calls[p] IN
       /\ timetableEntries' = timetableEntries \o c.scheduleWithVersions
       /\ calls' = [calls EXCEPT ![p] = Finished([c EXCEPT !.result =
               [success        |-> TRUE,
                message        |-> "Timetable generated successfully with "
                                      \o ToString(Len(c.schedule)) \o " entries.",
                entriesCreated |-> Len(c.schedule),
                version        |-> IF Len(c.versionsCreated) > 0
                                   THEN c.versionsCreated[1].version
                                   ELSE <<"v0.", 1>>]])]
    /\ UNCHANGED <<tables, timetableVersions, now, timeSlots>>

\* deleteClassSubjectAssignment(id), storage.ts 910-912: an administrator removes
\* an assignment, between calls.
deleteClassSubjectAssignment(id) ==
    /\ \A p \in DOMAIN calls : Quiet(p)
    /\ \E n \in 1..Len(classSubjectAssignments) : classSubjectAssignments[n].id = id
    /\ classSubjectAssignments' = SelectSeq(classSubjectAssignments, LAMBDA a : a.id # id)
    /\ UNCHANGED <<classes, subjects, teachers, timetableStructures,
                   timetableVersions, timetableEntries, now, timeSlots, calls>>

\* A day passes, between calls.
Tick ==
    /\ \A p \in DOMAIN calls : Quiet(p)
    /\ now < MaxNow
    /\ now' = now + 1
    /\ UNCHANGED <<tables, timetableVersions, timetableEntries, timeSlots, calls>>

-----------------------------------------------------------------------------
(* solveSchedule as a function of its arguments and of the grid *)

TimeRange(n) == <<periodTimes[n].startTime, periodTimes[n].endTime>>

StructureSlot(n, isBreak) ==
    [period |-> periodTimes[n].period, startTime |-> periodTimes[n].startTime,
     endTime |-> periodTimes[n].endTime, isBreak |-> isBreak]

\* Structures of a school: one day of three periods, two days of two periods,
\* and one that lists period 1 twice.
SolveStructures ==
    { [workingDays |-> <<"monday">>,
       timeSlots |-> <<StructureSlot(1, FALSE), StructureSlot(2, FALSE), StructureSlot(3, FALSE)>>],
      [workingDays |-> <<"monday", "tuesday">>,
       timeSlots |-> <<StructureSlot(1, FALSE), StructureSlot(2, FALSE)>>],
      [workingDays |-> <<"monday">>,
       timeSlots |-> <<StructureSlot(1, FALSE), StructureSlot(1, FALSE), StructureSlot(2, FALSE)>>] }

SolveSubjects == <<[id |-> "math", name |-> "Mathematics"], [id |-> "art", name |-> "Art"]>>

\* Availability of a teacher: no list on any day; or every period listed on
\* every day; or period 1 only on monday and no list on the other days.
Unrestricted == [d \in AllDays |-> {}]
FullyListed == [d \in AllDays |-> {TimeRange(1), TimeRange(2), TimeRange(3)}]
MondayFirst == [d \in AllDays |-> IF d = "monday" THEN {TimeRange(1)} ELSE {}]
SolveAvailabilities == {Unrestricted, FullyListed, MondayFirst}

SolveRosters ==
    LET t1s == [id : {"t1"}, subjects : {{"math", "art"}},
                availability : SolveAvailabilities, isActive : {TRUE}]
        t2s == [id : {"t2"}, subjects : {{"math"}},
                availability : {Unrestricted, FullyListed}, isActive : {TRUE}]
    IN  {<<t1>> : t1 \in t1s} \cup {<<t1, t2>> : t1 \in t1s, t2 \in t2s}

\* One or MaxConstraints constraints.  The first is for mathematics; the others
\* are for the same class or for class B.
SolveConstraintLists ==
    LET firsts == [classId : {ClassP, ClassA}, subjectId : {"math"},
                   periodsNeeded : 1..MaxPeriodsNeeded, preferredTeachers : {<<>>}]
        others(c) == [classId : {c.classId, ClassB}, subjectId : {"math", "art"},
                      periodsNeeded : 1..MaxPeriodsNeeded, preferredTeachers : {<<>>}]
        lists(n) == {cs \in [1..n -> UNION {others(c) : c \in firsts}] :
                        /\ cs[1] \in firsts
                        /\ \A i \in 2..n : cs[i] \in others(cs[1])}
    IN  UNION {lists(n) : n \in 1..MaxConstraints}

InitSolve ==
    /\ classes = <<>> /\ subjects = <<>> /\ teachers = <<>>
    /\ classSubjectAssignments = <<>> /\ timetableStructures = <<>>
    /\ timetableVersions = <<>> /\ timetableEntries = <<>>
    /\ now = 0
    /\ \E structure \in SolveStructures : timeSlots = timeSlotsOfStructure(structure)
    /\ \E constraints \in SolveConstraintLists, roster \in SolveRosters :
          calls = [p \in {1} |->
                     [IdleCall EXCEPT !.op = "solveSchedule", !.pc = "solveSchedule",
                                      !.constraints = constraints,
                                      !.teachers = roster,
                                      !.subjects = SolveSubjects]]

Solver ==
    \/ \E p \in DOMAIN calls : solveSchedule(p)
    \/ \E p \in DOMAIN calls : forConstraint(p)
    \/ \E p \in DOMAIN calls : forTimeSlot(p)

NextSolve == Solver

SpecSolve == InitSolve /\ [][NextSolve]_vars

-----------------------------------------------------------------------------
(* The scheduler over the tables of one school, calls one after the other *)

\* School s1 has two classes and a structure of one day with two periods; school
\* s2 has no class.
SchoolClasses ==
    << [id |-> ClassA, schoolId |-> "s1", grade |-> "5", section |-> "A"],
       [id |-> ClassB, schoolId |-> "s1", grade |-> "5", section |-> "B"] >>

SchoolStructures ==
    << [schoolId |-> "s1", workingDays |-> <<"monday">>,
        timeSlots |-> <<StructureSlot(1, FALSE), StructureSlot(2, FALSE)>>,
        isActive |-> TRUE] >>

\* No teacher; or one teacher of s1, of mathematics or of no subject, with no
\* availability lists.
SchoolTeachers ==
    { <<>> } \cup
    { <<[id |-> "t1", subjects |-> subs, availability |-> av, isActive |-> TRUE,
         schoolId |-> "s1"]>> :
        subs \in {{"math"}}, av \in {Unrestricted} } \cup
    { <<[id |-> "t1", subjects |-> {}, availability |-> Unrestricted, isActive |-> TRUE,
         schoolId |-> "s1"]>> }

SchoolSubjects == { <<>>, <<[id |-> "math", name |-> "Mathematics", schoolId |-> "s1"]>> }

\* Each class has mathematics, class B once a week.
SchoolAssignments ==
    LET of(id, classId, frequencies) ==
            [id : {id}, classId : {classId}, subjectId : {"math"},
             weeklyFrequency : frequencies, assignedTeacherId : {None}]
    IN  {<<a, b>> : a \in of("a1", ClassA, 1..MaxPeriodsNeeded), b \in of("a2", ClassB, {1})}

\* The scheduler instance is constructed with the default grid.
InitTables ==
    /\ classes = SchoolClasses
    /\ timetableStructures = SchoolStructures
    /\ teachers \in SchoolTeachers
    /\ subjects \in SchoolSubjects
    /\ classSubjectAssignments \in (IF subjects = <<>> THEN {<<>>} ELSE SchoolAssignments)
    /\ timetableVersions = <<>>
    /\ timetableEntries = <<>>
    /\ now = 6
    /\ timeSlots = initializeTimeSlots(<<>>)

Init ==
    /\ InitTables
    /\ calls = [p \in {1} |-> IdleCall]

\* The requests: a class of the school, a class that does not exist, or no class
\* with the user's school (s2 has no class; a user may have no school).
GenerateRequests ==
    { <<NoClass, None>>, <<NoClass, "s1">>, <<NoClass, "s2">>,
      <<ClassA, "s1">>, <<ClassB, "s1">>, <<ClassC, "s1">> }

\* Any id of a version, or one that names no version; any class.
VersionIds == {ToString(n) : n \in 1..(Len(timetableVersions) + 1)}

Storage ==
    \/ \E p \in DOMAIN calls : selectVersion(p)
    \/ \E p \in DOMAIN calls : deactivateVersions(p)
    \/ \E p \in DOMAIN calls : activateVersion(p)
    \/ \E p \in DOMAIN calls : countActive(p)
    \/ \E p \in DOMAIN calls : deactivateEntries(p)
    \/ \E p \in DOMAIN calls : insertEntries(p)

Generate ==
    \/ \E p \in DOMAIN calls : getClasses(p)
    \/ \E p \in DOMAIN calls : getRosters(p)
    \/ \E p \in DOMAIN calls : initializeFromStructure(p)
    \/ \E p \in DOMAIN calls : forClass(p)
    \/ \E p \in DOMAIN calls : createTimetableVersionStep(p)
    \/ \E p \in DOMAIN calls : buildConstraints(p)
    \/ \E p \in DOMAIN calls : afterSolve(p)

Requests ==
    \/ \E p \in DOMAIN calls, r \in GenerateRequests : generateTimetable(p, r[1], r[2])
    \/ \E p \in DOMAIN calls, v \in VersionIds, c \in {ClassA, ClassB} : activate(p, v, c)
    \/ \E p \in DOMAIN calls : Return(p)
    \/ \E id \in {"a1", "a2"} : deleteClassSubjectAssignment(id)

Next == Requests \/ Generate \/ Solver \/ Storage \/ Tick

Spec == Init /\ [][Next]_vars

-----------------------------------------------------------------------------
(* Two requests in flight: the awaits of one call interleave with the other's *)

\* Class A and class B have mathematics once a week with teacher t1; the week
\* has one period.
InitRace ==
    /\ classes = SchoolClasses
    /\ timetableStructures =
          << [schoolId |-> "s1", workingDays |-> <<"monday">>,
              timeSlots |-> <<StructureSlot(1, FALSE)>>, isActive |-> TRUE] >>
    /\ teachers = <<[id |-> "t1", subjects |-> {"math"}, availability |-> Unrestricted,
                     isActive |-> TRUE, schoolId |-> "s1"]>>
    /\ subjects = <<[id |-> "math", name |-> "Mathematics", schoolId |-> "s1"]>>
    /\ classSubjectAssignments \in {a \in SchoolAssignments : a[1].weeklyFrequency = 1}
    /\ timetableVersions = <<>>
    /\ timetableEntries = <<>>
    /\ now = 6
    /\ timeSlots = initializeTimeSlots(<<>>)
    /\ calls = [p \in {1, 2} |-> IdleCall]

\* The versions of class A, each with its own class.
RaceActivations ==
    {<<timetableVersions[n].id, timetableVersions[n].classId>> :
        n \in {m \in 1..Len(timetableVersions) : timetableVersions[m].classId = ClassA}}

RaceRequests ==
    \/ \E p \in DOMAIN calls :
          Len(timetableVersions) < MaxRaceVersions /\ generateTimetable(p, ClassA, "s1")
    \/ \E p \in DOMAIN calls, r \in RaceActivations : activate(p, r[1], r[2])
    \/ \E p \in DOMAIN calls : Return(p)

ForceFix ==
    \/ \E p \in DOMAIN calls : forceDeactivate(p)
    \/ \E p \in DOMAIN calls : forceActivate(p)

NextRace == RaceRequests \/ Generate \/ Solver \/ Storage \/ ForceFix

SpecRace == InitRace /\ [][NextRace]_vars

-----------------------------------------------------------------------------
(* One scheduler instance serving a school with a structure and one without *)

\* A class of school s3.
ClassD == <<"c4d1e7a9", "2b6f", "4a3c", "8e5d", "6f7a8b9c0d1e">>

\* School s1 works saturdays, two periods; school s3 has no structure.
GridStructures ==
    << [schoolId |-> "s1", workingDays |-> <<"saturday">>,
        timeSlots |-> <<StructureSlot(1, FALSE), StructureSlot(2, FALSE)>>,
        isActive |-> TRUE] >>

\* The grid the constructor builds.
DefaultGrid == initializeTimeSlots(<<>>)

\* Each school has a class with mathematics once a week and a teacher of it.
InitGrid ==
    /\ classes = << [id |-> ClassA, schoolId |-> "s1", grade |-> "5", section |-> "A"],
                    [id |-> ClassD, schoolId |-> "s3", grade |-> "6", section |-> "A"] >>
    /\ timetableStructures = GridStructures
    /\ teachers = << [id |-> "t1", subjects |-> {"math"}, availability |-> Unrestricted,
                      isActive |-> TRUE, schoolId |-> "s1"],
                     [id |-> "t3", subjects |-> {"math"}, availability |-> Unrestricted,
                      isActive |-> TRUE, schoolId |-> "s3"] >>
    /\ subjects = <<[id |-> "math", name |-> "Mathematics", schoolId |-> "s1"]>>
    /\ classSubjectAssignments =
          << [id |-> "a1", classId |-> ClassA, subjectId |-> "math", weeklyFrequency |-> 1,
              assignedTeacherId |-> None],
             [id |-> "a4", classId |-> ClassD, subjectId |-> "math", weeklyFrequency |-> 1,
              assignedTeacherId |-> None] >>
    /\ timetableVersions = <<>>
    /\ timetableEntries = <<>>
    /\ now = 6
    /\ timeSlots = DefaultGrid
    /\ calls = [p \in {1} |-> IdleCall]

GridRequests ==
    \/ \E p \in DOMAIN calls, r \in {<<ClassA, "s1">>, <<ClassD, "s3">>} :
          Len(timetableVersions) < MaxGridVersions /\ generateTimetable(p, r[1], r[2])
    \/ \E p \in DOMAIN calls : Return(p)

NextGrid == GridRequests \/ Generate \/ Solver \/ Storage

SpecGrid == InitGrid /\ [][NextGrid]_vars

-----------------------------------------------------------------------------
(* Two schools with different structures, a request of each in flight *)

\* A class of school s2.
ClassE == <<"5a7c9e1b", "3d2f", "4b8a", "a6c4", "1e2d3c4b5a69">>

\* School s1 has period 1 and a break in period 2 on mondays; school s2 has
\* period 2 on mondays.
SchoolsStructures ==
    << [schoolId |-> "s1", workingDays |-> <<"monday">>,
        timeSlots |-> <<StructureSlot(1, FALSE), StructureSlot(2, TRUE)>>,
        isActive |-> TRUE],
       [schoolId |-> "s2", workingDays |-> <<"monday">>,
        timeSlots |-> <<StructureSlot(2, FALSE)>>,
        isActive |-> TRUE] >>

\* Each school has a class with mathematics once a week and a teacher of it.
InitSchools ==
    /\ classes = << [id |-> ClassA, schoolId |-> "s1", grade |-> "5", section |-> "A"],
                    [id |-> ClassE, schoolId |-> "s2", grade |-> "7", section |-> "A"] >>
    /\ timetableStructures = SchoolsStructures
    /\ teachers = << [id |-> "t1", subjects |-> {"math"}, availability |-> Unrestricted,
                      isActive |-> TRUE, schoolId |-> "s1"],
                     [id |-> "t2", subjects |-> {"math"}, availability |-> Unrestricted,
                      isActive |-> TRUE, schoolId |-> "s2"] >>
    /\ subjects = <<[id |-> "math", name |-> "Mathematics", schoolId |-> "s1"]>>
    /\ classSubjectAssignments =
          << [id |-> "a1", classId |-> ClassA, subjectId |-> "math", weeklyFrequency |-> 1,
              assignedTeacherId |-> None],
             [id |-> "a5", classId |-> ClassE, subjectId |-> "math", weeklyFrequency |-> 1,
              assignedTeacherId |-> None] >>
    /\ timetableVersions = <<>>
    /\ timetableEntries = <<>>
    /\ now = 6
    /\ timeSlots = DefaultGrid
    /\ calls = [p \in {1, 2} |-> IdleCall]

\* The administrator of s1 is caller 1, the administrator of s2 is caller 2.
SchoolsRequests ==
    \/ \E r \in {<<1, ClassA, "s1">>, <<2, ClassE, "s2">>} :
          Len(timetableVersions) < MaxSchoolsVersions /\ generateTimetable(r[1], r[2], r[3])
    \/ \E p \in DOMAIN calls : Return(p)

NextSchools == SchoolsRequests \/ Generate \/ Solver \/ Storage

SpecSchools == InitSchools /\ [][NextSchools]_vars

-----------------------------------------------------------------------------
(* validateTimetable *)

\* The rows whether active or not.
EveryTimetableEntry(entries) == entries

\* getTimetableEntries(): the active entries of every school, in the order of
\* the table.
getTimetableEntries(entries) == SelectSeq(entries, LAMBDA e : e.isActive)

\* The conflict strings, by what they name.
TeacherConflict(entry, conflictEntry) ==
    [kind |-> "Teacher conflict", teacherId |-> entry.teacherId,
     classId |-> entry.classId, otherClassId |-> conflictEntry.classId,
     day |-> entry.day, period |-> entry.period]

RoomConflict(entry) ==
    [kind |-> "Room conflict", room |-> entry.room, day |-> entry.day,
     period |-> entry.period]

InsufficientPeriods(classData, assignment, subjectName, actualCount) ==
    [kind |-> "Insufficient periods", grade |-> classData.grade,
     section |-> classData.section, needs |-> assignment.weeklyFrequency,
     subject |-> subjectName, has |-> actualCount]

ExcessPeriods(classData, assignment, subjectName, actualCount) ==
    [kind |-> "Excess periods", grade |-> classData.grade,
     section |-> classData.section, has |-> actualCount,
     subject |-> subjectName, needs |-> assignment.weeklyFrequency]

SystemError == [kind |-> "Unable to validate timetable due to system error"]

\* The same without the comparison of the classes.
ConflictEntriesAnyClass(entries, entry) ==
    {n \in 1..Len(entries) :
        /\ entries[n].teacherId = entry.teacherId
        /\ entries[n].day = entry.day
        /\ entries[n].period = entry.period}

\* lines 429-434: the entries of the same teacher, day and period in another class.
ConflictEntries(entries, entry) ==
    {n \in 1..Len(entries) :
        /\ entries[n].teacherId = entry.teacherId
        /\ entries[n].day = entry.day
        /\ entries[n].period = entry.period
        /\ entries[n].classId # entry.classId}

\* Array.prototype.find: the first of them.
FindConflictEntry(entries, entry) ==
    LET found == ConflictEntries(entries, entry)
    IN  entries[CHOOSE n \in found : \A m \in found : n <= m]

\* lines 416-444.  teacherSchedule maps a teacher to the `${day}-${period}` keys
\* seen; it is kept as the set of (teacher, day, period) seen.
RECURSIVE TeacherLoop(_, _, _)
TeacherLoop(entries, k, teacherSchedule) ==
    IF k > Len(entries)
    THEN <<>>
    ELSE LET entry == entries[k]
             slotKey == <<entry.teacherId, entry.day, entry.period>>
         IN  IF slotKey \in teacherSchedule
             THEN (IF ConflictEntries(entries, entry) # {}
                   THEN <<TeacherConflict(entry, FindConflictEntry(entries, entry))>>
                   ELSE <<>>)
                  \o TeacherLoop(entries, k + 1, teacherSchedule)
             ELSE TeacherLoop(entries, k + 1, teacherSchedule \cup {slotKey})

\* lines 447-467.
RECURSIVE RoomLoop(_, _, _)
RoomLoop(entries, k, roomSchedule) ==
    IF k > Len(entries)
    THEN <<>>
    ELSE LET entry == entries[k]
             slotKey == <<entry.room, entry.day, entry.period>>
         IN  IF entry.room = None
             THEN RoomLoop(entries, k + 1, roomSchedule)
             ELSE IF slotKey \in roomSchedule
             THEN <<RoomConflict(entry)>> \o RoomLoop(entries, k + 1, roomSchedule)
             ELSE RoomLoop(entries, k + 1, roomSchedule \cup {slotKey})

\* lines 470-480 and 487, 490: the count of the entries of a class and subject,
\* 0 where the map has none.
classSubjectCount(entries, classId, subjectId) ==
    Cardinality({n \in 1..Len(entries) :
                    entries[n].classId = classId /\ entries[n].subjectId = subjectId})

\* assignment.subject.name of the joined row.
SubjectName(subjectId) ==
    LET n == CHOOSE m \in 1..Len(subjects) : subjects[m].id = subjectId
    IN  subjects[n].name

\* lines 489-503, for the assignments from the k-th on.
RECURSIVE AssignmentLoop(_, _, _, _)
AssignmentLoop(entries, classData, assignments, k) ==
    IF k > Len(assignments)
    THEN <<>>
    ELSE LET assignment == assignments[k]
             actualCount == classSubjectCount(entries, classData.id, assignment.subjectId)
             name == SubjectName(assignment.subjectId)
         IN  (IF actualCount < assignment.weeklyFrequency
              THEN <<InsufficientPeriods(classData, assignment, name, actualCount)>>
              ELSE <<>>)
             \o (IF actualCount > assignment.weeklyFrequency
                 THEN <<ExcessPeriods(classData, assignment, name, actualCount)>>
                 ELSE <<>>)
             \o AssignmentLoop(entries, classData, assignments, k + 1)

\* The conflicts list of a call that has kept those of the call before.
ConflictsKept(c) == c.validation.conflicts

\* line 410: const conflicts = [].
NewConflicts(c) == <<>>

\* A call in progress or over whose result the caller still holds.
Validated(c) == c.op = "validateTimetable" /\ c.pc = "done"

\* The route GET /api/timetable/validate.
validateTimetable(p) ==
    /\ Quiet(p)
    /\ calls' = [calls EXCEPT ![p] =
                    [IdleCall EXCEPT !.op = "validateTimetable", !.pc = "validateEntries",
                                     !.conflicts = NewConflicts(calls[p])]]
    /\ UNCHANGED <<tables, timetableVersions, timetableEntries, now, timeSlots>>

\* The same request again, the caller keeping what the call before returned.
validateAgain(p) ==
    /\ Validated(calls[p])
    /\ calls[p].earlier = NoValidation
    /\ calls' = [calls EXCEPT ![p] =
                    [IdleCall EXCEPT !.op = "validateTimetable", !.pc = "validateEntries",
                                     !.conflicts = NewConflicts(calls[p]),
                                     !.earlier = calls[p].validation]]
    /\ UNCHANGED <<tables, timetableVersions, timetableEntries, now, timeSlots>>

\* lines 413-480: the active entries, the teacher and room conflicts.
validateEntries(p) ==
    /\ calls[p].pc = "validateEntries"
    /\ MayStep(p)
    /\ LET c == calls[p]
           entries == getTimetableEntries(timetableEntries)
       IN  calls' = [calls EXCEPT
                        ![p].pc = "validateClasses",
                        ![p].timetableEntries = entries,
                        ![p].conflicts = c.conflicts \o TeacherLoop(entries, 1, {})
                                                     \o RoomLoop(entries, 1, {})]
    /\ UNCHANGED <<tables, timetableVersions, timetableEntries, now, timeSlots>>

\* line 483: the classes of every school.
validateClasses(p) ==
    /\ calls[p].pc = "validateClasses"
    /\ MayStep(p)
    /\ calls' = [calls EXCEPT ![p].pc = "validateAssignments",
                              ![p].classes = classes,
                              ![p].i = 1]
    /\ UNCHANGED <<tables, timetableVersions, timetableEntries, now, timeSlots>>

\* lines 485-504 and 511-514: the assignments of the next class against the
\* counts; after the last class, the result.
validateAssignments(p) ==
    /\ calls[p].pc = "validateAssignments"
    /\ MayStep(p)
    /\ LET c == calls[p] IN
       IF c.i <= Len(c.classes)
       THEN calls' = [calls EXCEPT
                        ![p].conflicts =
                            c.conflicts \o
                            AssignmentLoop(c.timetableEntries, c.classes[c.i],
                                           getClassSubjectAssignments(c.classes[c.i].id), 1),
                        ![p].i = c.i + 1]
       ELSE calls' = [calls EXCEPT ![p] =
                        Finished([c EXCEPT !.validation =
                                     [isValid |-> Len(c.conflicts) = 0,
                                      conflicts |-> c.conflicts]])]
    /\ UNCHANGED <<tables, timetableVersions, timetableEntries, now, timeSlots>>

Validate ==
    \/ \E p \in DOMAIN calls : validateEntries(p)
    \/ \E p \in DOMAIN calls : validateClasses(p)
    \/ \E p \in DOMAIN calls : validateAssignments(p)

-----------------------------------------------------------------------------
(* suggestOptimizations *)

\* getTeachers(): the active teachers of every school.
getAllTeachers == SelectSeq(teachers, LAMBDA t : t.isActive)

\* lines 527-531: teacherWorkload, the entries of each teacher that has any.
teacherWorkload(entries) ==
    [t \in {entries[n].teacherId : n \in 1..Len(entries)} |->
        Cardinality({n \in 1..Len(entries) : entries[n].teacherId = t})]

\* lines 533-540.  maxWorkload - minWorkload > avgWorkload * 0.3 with avgWorkload
\* the sum over the number of teachers, in whole numbers; with no entry the
\* average is NaN and the comparison is false.
WorkloadImbalance(entries) ==
    LET workloads == teacherWorkload(entries)
        count == Cardinality(DOMAIN workloads)
        maxWorkload == CHOOSE w \in {workloads[t] : t \in DOMAIN workloads} :
                           \A t \in DOMAIN workloads : workloads[t] <= w
        minWorkload == CHOOSE w \in {workloads[t] : t \in DOMAIN workloads} :
                           \A t \in DOMAIN workloads : w <= workloads[t]
    IN  /\ count > 0
        /\ 10 * count * (maxWorkload - minWorkload) > 3 * Len(entries)

\* lines 543-548: afternoonPeriods > morningPeriods * 1.5.
AfternoonSkew(entries) ==
    LET morningPeriods == Cardinality({n \in 1..Len(entries) : entries[n].period <= 4})
        afternoonPeriods == Cardinality({n \in 1..Len(entries) : entries[n].period >= 5})
    IN  2 * afternoonPeriods > 3 * morningPeriods

\* lines 551-562: the subjects of a class on a day, in the order of the entries.
dailySchedules(entries, classId, day) ==
    LET ofDay == SelectSeq(entries, LAMBDA e : e.classId = classId /\ e.day = day)
    IN  [n \in 1..Len(ofDay) |-> ofDay[n].subjectId]

\* lines 564-574.
hasConsecutiveSameSubjects(entries) ==
    \E n \in 1..Len(entries) :
        LET daySubjects == dailySchedules(entries, entries[n].classId, entries[n].day)
        IN  \E i \in 1..(Len(daySubjects) - 1) : daySubjects[i] = daySubjects[i + 1]

Redistribute == "Consider redistributing teacher workload for better balance."
MoveToMorning ==
    "Consider moving some subjects to morning hours for better student engagement."
AvoidConsecutive ==
    "Avoid scheduling the same subject in consecutive periods for better learning outcomes."
WellOptimized == "Current timetable appears well-optimized. No major issues detected."
UnableToAnalyze == "Unable to analyze timetable for optimization opportunities."

\* The reassuring message pushed whatever was found.
WhenAlways(suggestions) == TRUE

\* line 579: suggestions.length === 0.
NothingSuggested(suggestions) == Len(suggestions) = 0

\* lines 526-581.
Suggestions(entries) ==
    LET found == (IF WorkloadImbalance(entries) THEN <<Redistribute>> ELSE <<>>)
                 \o (IF AfternoonSkew(entries) THEN <<MoveToMorning>> ELSE <<>>)
                 \o (IF hasConsecutiveSameSubjects(entries) THEN <<AvoidConsecutive>> ELSE <<>>)
    IN  IF NothingSuggested(found) THEN Append(found, WellOptimized) ELSE found

\* The routes GET /api/timetable/optimize and GET /api/timetable/suggestions.
suggestOptimizations(p) ==
    /\ Quiet(p)
    /\ calls' = [calls EXCEPT ![p] =
                    [IdleCall EXCEPT !.op = "suggestOptimizations", !.pc = "suggestEntries"]]
    /\ UNCHANGED <<tables, timetableVersions, timetableEntries, now, timeSlots>>

\* lines 521-588: the active entries and the active teachers, then the three
\* heuristics.
suggestEntries(p) ==
    /\ calls[p].pc = "suggestEntries"
    /\ MayStep(p)
    /\ LET c == calls[p]
           entries == getTimetableEntries(timetableEntries)
       IN  calls' = [calls EXCEPT ![p] =
                        Finished([c EXCEPT !.timetableEntries = entries,
                                           !.teachers = getAllTeachers,
                                           !.suggestions = Suggestions(entries)])]
    /\ UNCHANGED <<tables, timetableVersions, timetableEntries, now, timeSlots>>

-----------------------------------------------------------------------------
(* validateTimetable and suggestOptimizations over the entries of a school *)

ReviewSubjects ==
    << [id |-> "math", name |-> "Mathematics", schoolId |-> "s1"],
       [id |-> "art", name |-> "Art", schoolId |-> "s1"] >>

ReviewTeachers ==
    << [id |-> "t1", subjects |-> {"math", "art"}, availability |-> Unrestricted,
        isActive |-> TRUE, schoolId |-> "s1"],
       [id |-> "t2", subjects |-> {"math", "art"}, availability |-> Unrestricted,
        isActive |-> TRUE, schoolId |-> "s1"] >>

\* Class A has mathematics twice and art once a week, class B mathematics once.
ReviewAssignments ==
    << [id |-> "a1", classId |-> ClassA, subjectId |-> "math", weeklyFrequency |-> 2,
        assignedTeacherId |-> None],
       [id |-> "a2", classId |-> ClassB, subjectId |-> "math", weeklyFrequency |-> 1,
        assignedTeacherId |-> None],
       [id |-> "a3", classId |-> ClassA, subjectId |-> "art", weeklyFrequency |-> 1,
        assignedTeacherId |-> None] >>

\* Rows of timetable_entries: a class, a teacher and a subject of the school on
\* monday in period 1 or 5, active or not.
ReviewEntries ==
    { [classId |-> cls, teacherId |-> t, subjectId |-> s, day |-> "monday",
       period |-> n, startTime |-> periodTimes[n].startTime,
       endTime |-> periodTimes[n].endTime, room |-> None, versionId |-> None,
       isActive |-> active] :
        cls \in {ClassA, ClassB}, t \in {"t1", "t2"}, s \in {"math", "art"},
        n \in {1, 5}, active \in BOOLEAN }

InitReview ==
    /\ classes = SchoolClasses
    /\ subjects = ReviewSubjects
    /\ teachers = ReviewTeachers
    /\ classSubjectAssignments = ReviewAssignments
    /\ timetableStructures = SchoolStructures
    /\ timetableVersions = <<>>
    /\ timetableEntries \in UNION {[1..n -> ReviewEntries] : n \in 0..MaxEntries}
    /\ now = 6
    /\ timeSlots = initializeTimeSlots(<<>>)
    /\ calls = [p \in {1} |-> IdleCall]

ReviewRequests ==
    \/ \E p \in DOMAIN calls : validateTimetable(p)
    \/ \E p \in DOMAIN calls : validateAgain(p)
    \/ \E p \in DOMAIN calls : suggestOptimizations(p)
    \/ \E p \in DOMAIN calls : suggestEntries(p)
    \/ \E p \in DOMAIN calls : Return(p)
    \/ \E id \in {"a1"} : deleteClassSubjectAssignment(id)

NextReview == ReviewRequests \/ Validate

SpecReview == InitReview /\ [][NextReview]_vars

-----------------------------------------------------------------------------
(* suggestOptimizations over the days of two classes *)

MaxDayEntries == 3

\* Rows of timetable_entries: mathematics or art with t1 for class A or B on
\* monday in period 1, 2 or 3, active or not.
DailyEntries ==
    { [classId |-> cls, teacherId |-> "t1", subjectId |-> s, day |-> "monday",
       period |-> n, startTime |-> periodTimes[n].startTime,
       endTime |-> periodTimes[n].endTime, room |-> None, versionId |-> None,
       isActive |-> active] :
        cls \in {ClassA, ClassB}, s \in {"math", "art"}, n \in {1, 2, 3},
        active \in BOOLEAN }

\* The rows in any order: the select of getTimetableEntries has no ORDER BY.
InitDaily ==
    /\ classes = SchoolClasses
    /\ subjects = ReviewSubjects
    /\ teachers = ReviewTeachers
    /\ classSubjectAssignments = ReviewAssignments
    /\ timetableStructures = SchoolStructures
    /\ timetableVersions = <<>>
    /\ timetableEntries \in UNION {[1..n -> DailyEntries] : n \in 0..MaxDayEntries}
    \* no class has two active rows in one period of a day
    /\ \A m, n \in 1..Len(timetableEntries) :
          /\ m # n
          /\ timetableEntries[m].isActive /\ timetableEntries[n].isActive
          /\ timetableEntries[m].classId = timetableEntries[n].classId
          /\ timetableEntries[m].day = timetableEntries[n].day
          => timetableEntries[m].period # timetableEntries[n].period
    /\ now = 6
    /\ timeSlots = initializeTimeSlots(<<>>)
    /\ calls = [p \in {1} |-> IdleCall]

NextDaily ==
    \/ \E p \in DOMAIN calls : suggestOptimizations(p)
    \/ \E p \in DOMAIN calls : suggestEntries(p)
    \/ \E p \in DOMAIN calls : Return(p)

SpecDaily == InitDaily /\ [][NextDaily]_vars

-----------------------------------------------------------------------------
(* A persistence operation throws *)

\* The call waits for a query or statement of the storage layer.
AtAwait(c) ==
    \/ c.pc \in {"getClasses", "getRosters", "initializeFromStructure",
                 "createTimetableVersion", "selectVersion", "deactivateVersions",
                 "activateVersion", "countActive", "forceDeactivate", "forceActivate",
                 "buildConstraints", "deactivateEntries",
                 "validateEntries", "validateClasses", "suggestEntries"}
    \/ c.pc \in {"forClass", "validateAssignments"} /\ c.i <= Len(c.classes)

\* No try block of the scheduler around the point of the call.
HandlerOfRoute(c) == None

\* The try block of the scheduler a throw at this point of the call is in:
\* initializeFromStructure (lines 27-63) inside generateTimetable (92-234),
\* validateTimetable (412-509), suggestOptimizations (520-586); setActiveVersion
\* called by the route has none.
Handler(c) ==
    IF c.op = "generateTimetable"
    THEN (IF c.pc = "initializeFromStructure" THEN "initializeFromStructure"
          ELSE "generateTimetable")
    ELSE IF c.op \in {"validateTimetable", "suggestOptimizations"} THEN c.op
    ELSE None

\* The awaited operation of the call throws.
Throw(p) ==
    /\ AtAwait(calls[p])
    /\ MayStep(p)
    /\ LET c == calls[p]
           handler == Handler(c)
       IN  IF handler = "initializeFromStructure"
           THEN \* lines 60-63, then lines 148-160 as without the throw
                /\ Len(timeSlots) + Len(periodTimes) * Len(WeekDays) <= MaxTimeSlots
                /\ timeSlots' = initializeTimeSlots(timeSlots)
                /\ calls' = [calls EXCEPT ![p].pc = "forClass",
                                          ![p].warned = TRUE,
                                          ![p].weekStart = StartOfWeek(now),
                                          ![p].weekEnd = EndOfWeek(now),
                                          ![p].i = 1,
                                          ![p].versionsCreated = <<>>]
           ELSE /\ timeSlots' = timeSlots
                /\ calls' = [calls EXCEPT ![p] =
                      IF handler = "generateTimetable"
                      THEN \* lines 228-234
                           Fail([c EXCEPT !.error = TRUE],
                                "An error occurred while generating the timetable. Please try again.")
                      ELSE IF handler = "validateTimetable"
                      THEN \* lines 506-514
                           Finished([c EXCEPT !.error = TRUE,
                                             !.validation =
                                                 [isValid |-> FALSE,
                                                  conflicts |-> Append(c.conflicts, SystemError)]])
                      ELSE IF handler = "suggestOptimizations"
                      THEN \* lines 583-588
                           Finished([c EXCEPT !.error = TRUE,
                                             !.suggestions = Append(c.suggestions, UnableToAnalyze)])
                      ELSE \* the exception leaves the call
                           [Finished([c EXCEPT !.error = TRUE]) EXCEPT !.pc = "thrown"]]
    /\ UNCHANGED <<tables, timetableVersions, timetableEntries, now>>

\* The catch block of the route takes the exception and answers with status 500.
Catch(p) ==
    /\ calls[p].pc = "thrown"
    /\ calls' = [calls EXCEPT ![p] = IdleCall]
    /\ UNCHANGED <<tables, timetableVersions, timetableEntries, now, timeSlots>>

FaultTeachers ==
    << [id |-> "t1", subjects |-> {"math"}, availability |-> Unrestricted,
        isActive |-> TRUE, schoolId |-> "s1"] >>

FaultAssignments ==
    << [id |-> "a1", classId |-> ClassA, subjectId |-> "math", weeklyFrequency |-> 1,
        assignedTeacherId |-> None],
       [id |-> "a2", classId |-> ClassB, subjectId |-> "math", weeklyFrequency |-> 1,
        assignedTeacherId |-> None] >>

InitFault ==
    /\ classes = SchoolClasses
    /\ subjects = <<[id |-> "math", name |-> "Mathematics", schoolId |-> "s1"]>>
    /\ teachers = FaultTeachers
    /\ classSubjectAssignments = FaultAssignments
    /\ timetableStructures = SchoolStructures
    /\ timetableVersions = <<>>
    /\ timetableEntries = <<>>
    /\ now = 6
    /\ timeSlots = initializeTimeSlots(<<>>)
    /\ calls = [p \in {1} |-> IdleCall]

FaultRequests ==
    \/ \E p \in DOMAIN calls :
          Len(timetableVersions) < MaxFaultVersions /\ generateTimetable(p, ClassA, "s1")
    \/ \E p \in DOMAIN calls, v \in VersionIds, c \in {ClassA, ClassB} : activate(p, v, c)
    \/ \E p \in DOMAIN calls : validateTimetable(p)
    \/ \E p \in DOMAIN calls : suggestOptimizations(p)
    \/ \E p \in DOMAIN calls : suggestEntries(p)
    \/ \E p \in DOMAIN calls : Return(p)
    \/ \E p \in DOMAIN calls : Throw(p)
    \/ \E p \in DOMAIN calls : Catch(p)

NextFault == FaultRequests \/ Generate \/ Solver \/ Storage \/ Validate

SpecFault == InitFault /\ [][NextFault]_vars

-----------------------------------------------------------------------------
(* solveSchedule over preferred, inactive and unqualified teachers *)

\* t1 holds both subjects and may be inactive; t2 holds one subject, which the
\* list of subjects may lack (teachers.subjects is a json array of ids, no
\* foreign key), and is free all day or in period 1 only.
PickRosters ==
    LET t1s == [id : {"t1"}, subjects : {{"math", "art"}},
                availability : SolveAvailabilities, isActive : BOOLEAN]
        t2s == [id : {"t2"}, subjects : {{"math"}, {"art"}, {"music"}},
                availability : {Unrestricted, MondayFirst}, isActive : {TRUE}]
    IN  {<<t1, t2>> : t1 \in t1s, t2 \in t2s}

\* One or two constraints.  The first is for any subject, music being no subject
\* of the list, with t2 assigned or nobody, and needs no period, fewer than
\* none, one, or more than a day may take of one subject; the second is for two periods of
\* mathematics in the same class or in class B.
PickConstraintLists ==
    LET firsts == [classId : {ClassA, ClassP}, subjectId : {"math", "art", "music"},
                   periodsNeeded : {0 - 1, 0, 1, DailyLimit + 1}, preferredTeachers : {<<>>, <<"t2">>}]
        second(c, classId) == [classId |-> classId, subjectId |-> "math",
                               periodsNeeded |-> 2, preferredTeachers |-> <<>>]
    IN  {<<c>> : c \in firsts}
        \cup {<<c, second(c, classId)>> : c \in firsts, classId \in {ClassA, ClassP, ClassB}}

InitPick ==
    /\ classes = <<>> /\ subjects = <<>> /\ teachers = <<>>
    /\ classSubjectAssignments = <<>> /\ timetableStructures = <<>>
    /\ timetableVersions = <<>> /\ timetableEntries = <<>>
    /\ now = 0
    \* one day of three periods
    /\ timeSlots = timeSlotsOfStructure(
                       [workingDays |-> <<"monday">>,
                        timeSlots |-> <<StructureSlot(1, FALSE), StructureSlot(2, FALSE),
                                        StructureSlot(3, FALSE)>>])
    /\ \E constraints \in PickConstraintLists, roster \in PickRosters :
          calls = [p \in {1} |->
                     [IdleCall EXCEPT !.op = "solveSchedule", !.pc = "solveSchedule",
                                      !.constraints = constraints,
                                      !.teachers = roster,
                                      !.subjects = SolveSubjects]]

NextPick == Solver

SpecPick == InitPick /\ [][NextPick]_vars

-----------------------------------------------------------------------------
(* The entries of one solveSchedule run *)

Returned(p) == calls[p].op = "solveSchedule" /\ calls[p].pc = "done"

\* The number of entries of a schedule for a class, day and subject.
EntriesOn(schedule, classId, day, subjectId) ==
    Cardinality({i \in 1..Len(schedule) :
                    /\ schedule[i].classId = classId
                    /\ schedule[i].day = day
                    /\ schedule[i].subjectId = subjectId})

SameTeacherSlot(a, b) ==
    a.teacherId = b.teacherId /\ a.day = b.day /\ a.period = b.period

SameClassSlot(a, b) ==
    a.classId = b.classId /\ a.day = b.day /\ a.period = b.period

\* C1: in the list one solveSchedule run returns, no two entries share
\* (teacherId, day, period).
C1_NoTeacherDoubleBooking ==
    \A p \in DOMAIN calls :
        Returned(p) =>
            \A i, j \in 1..Len(calls[p].schedule) :
                i < j => ~SameTeacherSlot(calls[p].schedule[i], calls[p].schedule[j])

\* C3: in the list one solveSchedule run returns, no (classId, day, subjectId)
\* has more than two entries.
C3_DailyCap ==
    \A p \in DOMAIN calls :
        Returned(p) =>
            \A i \in 1..Len(calls[p].schedule) :
                LET e == calls[p].schedule[i]
                IN  EntriesOn(calls[p].schedule, e.classId, e.day, e.subjectId) <= 2

\* Two constraints for the same class and subject asked for more than two periods on
\* a one-day grid with a free third slot, and the day holds exactly two.
C3_Witness ==
    \E p \in DOMAIN calls :
        /\ Returned(p)
        /\ Len(calls[p].constraints) = 2
        /\ calls[p].constraints[1].classId = calls[p].constraints[2].classId
        /\ calls[p].constraints[1].subjectId = calls[p].constraints[2].subjectId
        /\ calls[p].constraints[1].periodsNeeded + calls[p].constraints[2].periodsNeeded > 2
        /\ Len(timeSlots) = 3
        /\ \A i, j \in 1..Len(timeSlots) :
              timeSlots[i].day = timeSlots[j].day /\ (i # j => timeSlots[i].period # timeSlots[j].period)
        /\ calls[p].teachers[1].availability = Unrestricted
        /\ Len(calls[p].schedule) = 2

\* C4: in the list one run returns, no two entries of a class share (day, period).
C4_NoClassSlotTwice ==
    \A p \in DOMAIN calls :
        Returned(p) =>
            \A i, j \in 1..Len(calls[p].schedule) :
                i < j => ~SameClassSlot(calls[p].schedule[i], calls[p].schedule[j])

\* The grid lists a (day, period) twice, a class asked for more periods than the
\* grid has distinct slots, and holds each distinct slot once.
C4_Witness ==
    \E p \in DOMAIN calls :
        /\ Returned(p)
        /\ \E i, j \in 1..Len(timeSlots) :
              i < j /\ timeSlots[i].day = timeSlots[j].day /\ timeSlots[i].period = timeSlots[j].period
        /\ Len(calls[p].constraints) = 2
        /\ calls[p].constraints[1].classId = calls[p].constraints[2].classId
        /\ calls[p].constraints[1].subjectId # calls[p].constraints[2].subjectId
        /\ calls[p].constraints[1].periodsNeeded + calls[p].constraints[2].periodsNeeded = 3
        /\ Len(calls[p].schedule) = 2

\* C7: a run of one constraint, with a qualified teacher who is free in every slot,
\* gives no day a second period of the subject while another day of the grid has
\* none.
C7_SpreadBeforeDoubling ==
    \A p \in DOMAIN calls :
        ( /\ Returned(p)
          /\ Len(calls[p].constraints) = 1
          /\ Qualified(calls[p].teachers[1], calls[p].constraints[1].subjectId)
          /\ calls[p].teachers[1].availability = Unrestricted )
        => \A i, j \in 1..Len(timeSlots) :
              LET c == calls[p].constraints[1]
              IN  EntriesOn(calls[p].schedule, c.classId, timeSlots[i].day, c.subjectId) >= 2
                  => EntriesOn(calls[p].schedule, c.classId, timeSlots[j].day, c.subjectId) >= 1

-----------------------------------------------------------------------------
(* The tables after calls of generateTimetable and setActiveVersion *)

AllQuiet == \A p \in DOMAIN calls : Quiet(p)

Done(p, op) == calls[p].op = op /\ calls[p].pc = "done"

ActiveEntries == {n \in 1..Len(timetableEntries) : timetableEntries[n].isActive}

\* C2: between calls, no two active entries share (teacherId, day, period).
C2_ActiveSetNoTeacherClash ==
    AllQuiet =>
        \A m, n \in ActiveEntries :
            m < n => ~SameTeacherSlot(timetableEntries[m], timetableEntries[n])

\* Every class and week that has versions has exactly one active version.
OneActivePerWeek(versions) ==
    \A n \in 1..Len(versions) :
        ActiveCount(versions, versions[n].classId, versions[n].weekStart,
                    versions[n].weekEnd) = 1

\* C5: when a setActiveVersion call has returned, every (classId, weekStart,
\* weekEnd) that has versions has exactly one active version.
C5_OneActiveAfterSetActive ==
    \A p \in DOMAIN calls :
        Done(p, "setActiveVersion") => OneActivePerWeek(timetableVersions)

\* The entries of the run of call c for a class, as they were persisted.
Produced(c, classId) ==
    SelectSeq([n \in 1..Len(c.schedule) |-> StampVersion(c.schedule[n], c.versionsCreated)],
              LAMBDA e : e.classId = classId)

\* The active entries of a class in the table, in table order.
ActiveOfClass(entries, classId) ==
    SelectSeq(entries, LAMBDA e : e.classId = classId /\ e.isActive)

\* Every row the call found is still there, changed in isActive at most, and the
\* rows of the class that were active are inactive now.
KeptInactive(c, classId) ==
    /\ Len(timetableEntries) >= Len(c.entriesBefore)
    /\ \A n \in 1..Len(c.entriesBefore) :
          /\ [timetableEntries[n] EXCEPT !.isActive = TRUE]
                = [c.entriesBefore[n] EXCEPT !.isActive = TRUE]
          /\ (c.entriesBefore[n].classId = classId /\ c.entriesBefore[n].isActive)
                => ~timetableEntries[n].isActive

\* C8: when generateTimetable has returned success, the active entries of every
\* class of the run are the entries the run produced for it, and the class's
\* entries that were active before are kept, inactive.
C8_ActiveAreProduced ==
    \A p \in DOMAIN calls :
        (Done(p, "generateTimetable") /\ calls[p].result.success) =>
            \A n \in 1..Len(calls[p].classes) :
                LET classId == calls[p].classes[n].id
                IN  /\ ActiveOfClass(timetableEntries, classId) = Produced(calls[p], classId)
                    /\ KeptInactive(calls[p], classId)

\* The request names a class that is not there, or no class and no school, or a
\* school without classes, or there is no subject, or the school of the classes
\* has no active teacher.
InputAbsent(c) ==
    LET found == IF c.classId # NoClass
                 THEN SelectSeq(classes, LAMBDA cls : cls.id = c.classId)
                 ELSE SelectSeq(classes, LAMBDA cls : cls.schoolId = c.userSchoolId)
    IN  \/ found = <<>>
        \/ c.classId = NoClass /\ c.userSchoolId = None
        \/ subjects = <<>>
        \/ \A n \in 1..Len(teachers) :
              ~(teachers[n].isActive /\ teachers[n].schoolId = found[1].schoolId)

SolverYieldedNothing(c) == Len(c.versionsCreated) > 0 /\ Len(c.schedule) = 0

\* C10: when the solver yields no entry, generateTimetable returns success:false
\* and the entries table is as the call found it.
C10_ZeroEntriesFails ==
    \A p \in DOMAIN calls :
        (Done(p, "generateTimetable") /\ SolverYieldedNothing(calls[p])) =>
            /\ ~calls[p].result.success
            /\ timetableEntries = calls[p].entriesBefore

\* The solver yielded nothing for a class that has active entries.
C10_Witness ==
    \E p \in DOMAIN calls :
        /\ Done(p, "generateTimetable")
        /\ SolverYieldedNothing(calls[p])
        /\ \E n \in ActiveEntries : timetableEntries[n].classId = calls[p].classes[1].id

\* C6: once two interleaved generateTimetable / setActiveVersion calls for the
\* same class and week have both returned, the class and week has exactly one
\* active version.
C6_OneActiveAfterInterleaving ==
    (\A p \in DOMAIN calls : calls[p].pc \in {"done", "idle"}) =>
        OneActivePerWeek(timetableVersions)

-----------------------------------------------------------------------------
(* The versions a run leaves behind *)

\* The rows of the versions table with this id.
VersionsWithId(versions, id) == {n \in 1..Len(versions) : versions[n].id = id}

\* The version a run created is stored, new, active and the only active version
\* of its class and week, and no entry carries its id.
KeptEmptyAndActive(c, created) ==
    /\ \E n \in VersionsWithId(timetableVersions, created.versionId) :
          /\ n > Len(c.versionsBefore)
          /\ timetableVersions[n].classId = created.classId
          /\ timetableVersions[n].isActive
          /\ ActiveCount(timetableVersions, created.classId,
                         timetableVersions[n].weekStart, timetableVersions[n].weekEnd) = 1
    /\ \A n \in 1..Len(timetableEntries) : timetableEntries[n].versionId # created.versionId

\* C11: when the solver yields no entry, the run's versions are not rolled back:
\* every class of the run has its new version stored as the only active version
\* of its class and week, no entry carries that version's id, and the active
\* entries of the class are the rows that were active before the call.
C11_EmptyVersionStays ==
    \A p \in DOMAIN calls :
        (Done(p, "generateTimetable") /\ SolverYieldedNothing(calls[p])) =>
            /\ Len(calls[p].versionsCreated) = Len(calls[p].classes)
            /\ \A n \in 1..Len(calls[p].versionsCreated) :
                  LET created == calls[p].versionsCreated[n]
                  IN  /\ created.classId = calls[p].classes[n].id
                      /\ KeptEmptyAndActive(calls[p], created)
                      /\ ActiveOfClass(timetableEntries, created.classId)
                            = ActiveOfClass(calls[p].entriesBefore, created.classId)

\* The run replaced an active version of the same class and week, and the class
\* has active entries.
C11_Witness ==
    \E p \in DOMAIN calls :
        /\ Done(p, "generateTimetable")
        /\ SolverYieldedNothing(calls[p])
        /\ \E n \in 1..Len(calls[p].versionsBefore) :
              /\ calls[p].versionsBefore[n].classId = calls[p].classes[1].id
              /\ calls[p].versionsBefore[n].isActive
              /\ ~timetableVersions[n].isActive
        /\ ActiveOfClass(timetableEntries, calls[p].classes[1].id) # <<>>

\* The ids of the versions of a class that were active when the call began.
PreviouslyActive(c, classId) ==
    {c.versionsBefore[n].id : n \in {m \in 1..Len(c.versionsBefore) :
        c.versionsBefore[m].classId = classId /\ c.versionsBefore[m].isActive}}

\* C11 as stated: in addition, the active entries of the class are the entries
\* of the version that was active before the run.
C11_ActiveAreOfPreviousVersion ==
    \A p \in DOMAIN calls :
        (Done(p, "generateTimetable") /\ SolverYieldedNothing(calls[p])) =>
            \A n \in 1..Len(calls[p].versionsCreated) :
                LET classId == calls[p].versionsCreated[n].classId
                IN  /\ KeptEmptyAndActive(calls[p], calls[p].versionsCreated[n])
                    /\ ActiveOfClass(timetableEntries, classId)
                          = SelectSeq(timetableEntries, LAMBDA e :
                                e.classId = classId
                                /\ e.versionId \in PreviouslyActive(calls[p], classId))

\* The number of the rows up to row n that have the class and week of row n:
\* row n is the k-th version created for its class and week.
CreationRank(versions, n) ==
    Cardinality({m \in 1..n : /\ versions[m].classId = versions[n].classId
                               /\ versions[m].weekStart = versions[n].weekStart
                               /\ versions[m].weekEnd = versions[n].weekEnd})

\* C18: with generateTimetable runs that do not overlap, the k-th version created
\* for a class and week carries the label v0.k.
C18_LabelIsCreationRank ==
    \A n \in 1..Len(timetableVersions) :
        timetableVersions[n].version = <<"v0.", CreationRank(timetableVersions, n)>>

\* A class has a second version in one week and a first version in a later week.
C18_Witness ==
    \E l, m, n \in 1..Len(timetableVersions) :
        /\ l < m /\ m < n
        /\ timetableVersions[l].classId = timetableVersions[m].classId
        /\ timetableVersions[m].classId = timetableVersions[n].classId
        /\ timetableVersions[l].weekStart = timetableVersions[m].weekStart
        /\ timetableVersions[m].weekStart < timetableVersions[n].weekStart
        /\ timetableVersions[m].version = <<"v0.", 2>>
        /\ timetableVersions[n].version = <<"v0.", 1>>

-----------------------------------------------------------------------------
(* The grid of a run *)

\* The call is about to run solveSchedule.
AtSolver(p) == calls[p].op = "generateTimetable" /\ calls[p].pc = "solveSchedule"

\* C13: when generateTimetable for a school without an active structure reaches
\* the solver, the grid is the default grid of monday to friday, periods 1 to 8.
C13_DefaultGridWithoutStructure ==
    \A p \in DOMAIN calls :
        (AtSolver(p) /\ getTimetableStructureBySchool(calls[p].schoolId) = <<>>) =>
            timeSlots = DefaultGrid

\* The grid of the active structure of a school.
GridOfSchool(schoolId) ==
    timeSlotsOfStructure(getTimetableStructureBySchool(schoolId)[1])

\* The entry lies on a slot of the grid.
OnGrid(entry, grid) ==
    \E n \in 1..Len(grid) :
        /\ grid[n].day = entry.day
        /\ grid[n].period = entry.period
        /\ grid[n].startTime = entry.startTime
        /\ grid[n].endTime = entry.endTime

\* C14: when generateTimetable calls for classes of two schools with different
\* structures interleave, every entry a call produces lies on a slot of the grid
\* of its own school.
C14_EntriesOnOwnGrid ==
    \A p \in DOMAIN calls :
        calls[p].op = "generateTimetable" =>
            \A n \in 1..Len(calls[p].schedule) :
                OnGrid(calls[p].schedule[n], GridOfSchool(calls[p].classes[1].schoolId))

\* The slots of a structure that are not breaks, in configured order.
OpenSlots(structure) == SelectSeq(structure.timeSlots, LAMBDA slot : ~slot.isBreak)

\* Each working day with each configured slot that is no break, day-major in
\* workingDays order, period-minor in configured order.
DayMajorGrid(structure) ==
    LET open == OpenSlots(structure)
        k == Len(open)
    IN  [n \in 1..(Len(structure.workingDays) * k) |->
            [day       |-> structure.workingDays[((n - 1) \div k) + 1],
             period    |-> open[((n - 1) % k) + 1].period,
             startTime |-> open[((n - 1) % k) + 1].startTime,
             endTime   |-> open[((n - 1) % k) + 1].endTime]]

\* The slot of the entry is a break of the structure on one of its working days.
OnBreak(entry, structure) ==
    /\ \E d \in 1..Len(structure.workingDays) : structure.workingDays[d] = entry.day
    /\ \E n \in 1..Len(structure.timeSlots) :
          /\ structure.timeSlots[n].isBreak
          /\ structure.timeSlots[n].period = entry.period
          /\ structure.timeSlots[n].startTime = entry.startTime
          /\ structure.timeSlots[n].endTime = entry.endTime

\* The active structure of the school of a class.
StructureOfClass(classId) ==
    getTimetableStructureBySchool(getClass(classId)[1].schoolId)[1]

\* C19: the grid of a school's structure is each working day with each configured
\* slot that is no break, once each, day-major then period-minor; and no entry
\* generated for a class lies on a break of its school's structure.
C19_GridSkipsBreaks ==
    /\ \A n \in 1..Len(timetableStructures) :
          timeSlotsOfStructure(timetableStructures[n]) = DayMajorGrid(timetableStructures[n])
    /\ \A p \in DOMAIN calls :
          \A n \in 1..Len(calls[p].schedule) :
              ~OnBreak(calls[p].schedule[n], StructureOfClass(calls[p].schedule[n].classId))
    /\ \A n \in 1..Len(timetableEntries) :
          ~OnBreak(timetableEntries[n], StructureOfClass(timetableEntries[n].classId))

-----------------------------------------------------------------------------
(* What validateTimetable and suggestOptimizations return *)

\* A call of validateTimetable that has returned without a caught error.
ValidatedClean(c) == Validated(c) /\ ~c.error

\* Two of the entries the call read have the same teacher, day and period and
\* different classes.
DoubleBooked(entries) ==
    \E m, n \in 1..Len(entries) :
        SameTeacherSlot(entries[m], entries[n]) /\ entries[m].classId # entries[n].classId

TeacherConflictsOf(conflicts) ==
    {k \in 1..Len(conflicts) : conflicts[k].kind = "Teacher conflict"}

\* The entries the call read hold the slot the conflict names for the class.
HoldsSlot(entries, conflict, classId) ==
    \E n \in 1..Len(entries) :
        /\ entries[n].teacherId = conflict.teacherId
        /\ entries[n].day = conflict.day
        /\ entries[n].period = conflict.period
        /\ entries[n].classId = classId

\* C15: validateTimetable reports a teacher conflict, and isValid false with it,
\* if and only if two of the active entries have the same teacher, day and
\* period and different classes; every teacher conflict names two different
\* classes whose entries hold the named slot of the named teacher.
C15_TeacherConflictIffDoubleBooked ==
    \A p \in DOMAIN calls :
        ValidatedClean(calls[p]) =>
            LET c == calls[p]
                reported == TeacherConflictsOf(c.validation.conflicts)
            IN  /\ (reported # {}) <=> DoubleBooked(c.timetableEntries)
                /\ reported # {} => ~c.validation.isValid
                /\ \A k \in reported :
                      LET conflict == c.validation.conflicts[k]
                      IN  /\ conflict.classId # conflict.otherClassId
                          /\ HoldsSlot(c.timetableEntries, conflict, conflict.classId)
                          /\ HoldsSlot(c.timetableEntries, conflict, conflict.otherClassId)

\* A call has returned a teacher conflict for a teacher who is in the same slot
\* three times, twice in one class.
C15_Witness ==
    \E p \in DOMAIN calls :
        /\ ValidatedClean(calls[p])
        /\ Len(calls[p].timetableEntries) = 3
        /\ \A m, n \in 1..3 :
              SameTeacherSlot(calls[p].timetableEntries[m], calls[p].timetableEntries[n])
        /\ calls[p].timetableEntries[1].classId = calls[p].timetableEntries[2].classId
        /\ calls[p].timetableEntries[3].classId # calls[p].timetableEntries[1].classId
        /\ TeacherConflictsOf(calls[p].validation.conflicts) # {}
        /\ ~calls[p].validation.isValid

\* The number of active rows of timetable_entries of a class and subject.
ActiveCountOf(classId, subjectId) ==
    Cardinality({n \in ActiveEntries :
                    /\ timetableEntries[n].classId = classId
                    /\ timetableEntries[n].subjectId = subjectId})

Reports(c, conflict) ==
    \E k \in 1..Len(c.validation.conflicts) : c.validation.conflicts[k] = conflict

AssignmentsOf(classId) ==
    {n \in 1..Len(classSubjectAssignments) : classSubjectAssignments[n].classId = classId}

\* C16: for every class and every assignment of it, validateTimetable reports
\* "Insufficient periods" with the required and the actual count exactly when
\* the class has fewer active entries of the subject than weeklyFrequency,
\* "Excess periods" exactly when it has more, and neither when it has as many.
C16_FrequencyConflicts ==
    \A p \in DOMAIN calls :
        ValidatedClean(calls[p]) =>
            \A i \in 1..Len(classes) : \A n \in AssignmentsOf(classes[i].id) :
                LET assignment == classSubjectAssignments[n]
                    actual == ActiveCountOf(classes[i].id, assignment.subjectId)
                    name == SubjectName(assignment.subjectId)
                IN  /\ Reports(calls[p], InsufficientPeriods(classes[i], assignment, name, actual))
                          <=> actual < assignment.weeklyFrequency
                    /\ Reports(calls[p], ExcessPeriods(classes[i], assignment, name, actual))
                          <=> actual > assignment.weeklyFrequency
                    /\ \A k \in 1..Len(calls[p].validation.conflicts) :
                          LET conflict == calls[p].validation.conflicts[k]
                          IN  /\ conflict.kind \in {"Insufficient periods", "Excess periods"}
                              /\ conflict.grade = classes[i].grade
                              /\ conflict.section = classes[i].section
                              /\ conflict.subject = name
                              /\ conflict.needs = assignment.weeklyFrequency
                              => /\ conflict.has = actual
                                 /\ actual # assignment.weeklyFrequency

\* A call has returned with too few periods of one assignment, too many of
\* another and none reported for a third, which has as many as it needs.
C16_Witness ==
    \E p \in DOMAIN calls :
        /\ ValidatedClean(calls[p])
        /\ Len(classSubjectAssignments) = 3
        /\ \E k \in 1..Len(calls[p].validation.conflicts) :
              calls[p].validation.conflicts[k].kind = "Insufficient periods"
        /\ \E k \in 1..Len(calls[p].validation.conflicts) :
              calls[p].validation.conflicts[k].kind = "Excess periods"
        /\ \E i \in 1..Len(classes) : \E n \in AssignmentsOf(classes[i].id) :
              /\ classSubjectAssignments[n].weeklyFrequency =
                    ActiveCountOf(classes[i].id, classSubjectAssignments[n].subjectId)

\* A step of a call of validateTimetable: the call starts, goes on or returns.
ValidateStep(p) ==
    /\ calls'[p] # calls[p]
    /\ calls[p].op = "validateTimetable" \/ calls'[p].op = "validateTimetable"

\* The second of two calls in a row has returned.
ValidatedTwice(c) == Validated(c) /\ c.earlier # NoValidation

Suggested(c) == c.op = "suggestOptimizations" /\ c.pc = "done" /\ ~c.error

Suggests(c, message) == \E k \in 1..Len(c.suggestions) : c.suggestions[k] = message

\* One of the three heuristics triggers on the active rows of timetable_entries.
Triggers ==
    LET entries == SelectSeq(timetableEntries, LAMBDA e : e.isActive)
    IN  \/ WorkloadImbalance(entries)
        \/ AfternoonSkew(entries)
        \/ hasConsecutiveSameSubjects(entries)

\* C20: suggestOptimizations returns a list that is not empty, whatever the
\* active entries; the list has the well-optimized message exactly when none of
\* the three heuristics triggers, and has nothing else then.
C20_WellOptimizedIffNoTrigger ==
    \A p \in DOMAIN calls :
        Suggested(calls[p]) =>
            LET c == calls[p] IN
            /\ Len(c.suggestions) > 0
            /\ Suggests(c, WellOptimized) <=> ~Triggers
            /\ Suggests(c, WellOptimized) <=>
                  ~(Suggests(c, Redistribute) \/ Suggests(c, MoveToMorning)
                      \/ Suggests(c, AvoidConsecutive))
            /\ Suggests(c, WellOptimized) => c.suggestions = <<WellOptimized>>

\* A call has returned the well-optimized message alone for a table that has
\* rows and no active one.
C20_Witness ==
    \E p \in DOMAIN calls :
        /\ Suggested(calls[p])
        /\ Len(timetableEntries) > 0
        /\ ActiveEntries = {}
        /\ calls[p].suggestions = <<WellOptimized>>

-----------------------------------------------------------------------------
(* What the three entry points return when a persistence operation throws *)

EntryPoints == {"generateTimetable", "validateTimetable", "suggestOptimizations"}

GenerationError ==
    Failure("An error occurred while generating the timetable. Please try again.")

\* The failure value of the entry point: success false; isValid false with the
\* system-error conflict; the suggestion that the timetable could not be analysed.
FailureValue(c) ==
    /\ c.op = "generateTimetable" => c.result = GenerationError
    /\ c.op = "validateTimetable" =>
          /\ ~c.validation.isValid
          /\ Len(c.validation.conflicts) > 0
          /\ c.validation.conflicts[Len(c.validation.conflicts)] = SystemError
    /\ c.op = "suggestOptimizations" =>
          \E k \in 1..Len(c.suggestions) : c.suggestions[k] = UnableToAnalyze

\* C12: a call of generateTimetable, validateTimetable or suggestOptimizations
\* never ends with an exception; a call in which an operation other than the
\* lookup of the structure threw returns the failure value of its entry point.
C12_CaughtThrowGivesFailure ==
    \A p \in DOMAIN calls :
        calls[p].op \in EntryPoints =>
            /\ calls[p].pc # "thrown"
            /\ calls[p].error => calls[p].pc = "done" /\ FailureValue(calls[p])

\* generateTimetable has returned the failure value after a throw that came
\* when it had created a version, the lookup of the structure having thrown
\* before.
C12_Witness ==
    \E p \in DOMAIN calls :
        /\ calls[p].op = "generateTimetable"
        /\ calls[p].pc = "done"
        /\ calls[p].error
        /\ calls[p].warned
        /\ Len(calls[p].versionsCreated) > 0
        /\ calls[p].result = GenerationError

\* C12 as stated: whichever operation threw, the call returns the failure value.
C12_AnyThrowGivesFailure ==
    \A p \in DOMAIN calls :
        calls[p].op \in EntryPoints =>
            /\ calls[p].pc # "thrown"
            /\ calls[p].pc = "done" /\ (calls[p].error \/ calls[p].warned)
                  => FailureValue(calls[p])

-----------------------------------------------------------------------------
(* The versions and entries of generateTimetable and setActiveVersion *)

\* The rows a call of generateTimetable that has returned added to
\* timetable_entries (no other call ran meanwhile).
PersistedBy(c) == {n \in 1..Len(timetableEntries) : n > Len(c.entriesBefore)}

\* The rows of timetable_versions the call created.
CreatedBy(c) == {n \in 1..Len(timetableVersions) : n > Len(c.versionsBefore)}

\* C25: every entry a generateTimetable run persisted carries the id of the
\* version the same run created for the entry's own class.
C25_EntriesCarryOwnVersion ==
    \A p \in DOMAIN calls :
        Done(p, "generateTimetable") =>
            \A n \in PersistedBy(calls[p]) :
                LET entry == timetableEntries[n] IN
                /\ entry.versionId # None
                /\ \E v \in CreatedBy(calls[p]) :
                      /\ timetableVersions[v].id = entry.versionId
                      /\ timetableVersions[v].classId = entry.classId
                /\ \A v \in 1..Len(timetableVersions) :
                      timetableVersions[v].id = entry.versionId =>
                          v \in CreatedBy(calls[p]) /\ timetableVersions[v].classId = entry.classId

\* A run for the whole school, after an earlier run, has persisted entries of
\* two classes.
C25_Witness ==
    \E p \in DOMAIN calls :
        /\ Done(p, "generateTimetable")
        /\ calls[p].classId = NoClass
        /\ calls[p].result.success
        /\ Len(calls[p].versionsBefore) > 0
        /\ \E m, n \in PersistedBy(calls[p]) :
              timetableEntries[m].classId # timetableEntries[n].classId

\* The version of the entry is the active version of the entry's class in the
\* version's week.
OfActiveVersion(entry) ==
    \E v \in 1..Len(timetableVersions) :
        /\ timetableVersions[v].id = entry.versionId
        /\ timetableVersions[v].classId = entry.classId
        /\ timetableVersions[v].isActive

\* C28: between calls of generateTimetable and setActiveVersion, every active
\* entry carries the id of a version that is the active version of the entry's
\* class and week.
C28_ActiveEntriesOfActiveVersion ==
    AllQuiet => \A n \in ActiveEntries : OfActiveVersion(timetableEntries[n])

\* The version the call named, as the call found the table.
NamedVersion(c) == SelectSeq(c.versionsBefore, LAMBDA v : v.id = c.versionId)

\* The row is as the call found it, but for isActive.
SameButActive(after, before) == [after EXCEPT !.isActive = before.isActive] = before

\* C29: when setActiveVersion(versionId, classId) has returned, no version was
\* created or deleted, no entry was modified, the only versions whose isActive
\* changed belong to the class and week of the version named by versionId, and
\* nothing changed when versionId names no version.
C29_OnlyOwnClassAndWeek ==
    \A p \in DOMAIN calls :
        Done(p, "setActiveVersion") =>
            LET c == calls[p]
                named == NamedVersion(c)
            IN  /\ timetableEntries = c.entriesBefore
                /\ Len(timetableVersions) = Len(c.versionsBefore)
                /\ \A n \in 1..Len(timetableVersions) :
                      SameButActive(timetableVersions[n], c.versionsBefore[n])
                /\ Len(named) = 0 => timetableVersions = c.versionsBefore
                /\ Len(named) > 0 =>
                      \A n \in 1..Len(timetableVersions) :
                          timetableVersions[n] # c.versionsBefore[n] =>
                              /\ timetableVersions[n].classId = named[1].classId
                              /\ timetableVersions[n].weekStart = named[1].weekStart
                              /\ timetableVersions[n].weekEnd = named[1].weekEnd

\* C30: no two versions of one class and week share a label, also when the
\* generateTimetable calls that created them interleaved.
C30_LabelsDiffer ==
    \A m, n \in 1..Len(timetableVersions) :
        /\ m < n
        /\ timetableVersions[m].classId = timetableVersions[n].classId
        /\ timetableVersions[m].weekStart = timetableVersions[n].weekStart
        /\ timetableVersions[m].weekEnd = timetableVersions[n].weekEnd
        => timetableVersions[m].version # timetableVersions[n].version

-----------------------------------------------------------------------------
(* The teachers solveSchedule picks *)

\* The teachers of the roster that are active and hold the subject, in roster
\* order; narrowed to the preferred ones among them when there is one.
QualifiedOf(roster, subjectId) ==
    SelectSeq(roster, LAMBDA t : t.isActive /\ subjectId \in t.subjects)

PreferredOf(roster, constraint) ==
    SelectSeq(QualifiedOf(roster, constraint.subjectId),
              LAMBDA t : \E i \in 1..Len(constraint.preferredTeachers) :
                             constraint.preferredTeachers[i] = t.id)

EligibleOf(roster, constraint) ==
    IF Len(PreferredOf(roster, constraint)) > 0
    THEN PreferredOf(roster, constraint)
    ELSE QualifiedOf(roster, constraint.subjectId)

\* The availability condition: the teacher's list for the day is empty or holds
\* the slot's startTime-endTime.
ListAllows(teacher, entry) ==
    \/ teacher.availability[entry.day] = {}
    \/ <<entry.startTime, entry.endTime>> \in teacher.availability[entry.day]

\* The teacher has an entry in this (day, period) among the first n of the
\* schedule.
BookedAmong(schedule, n, teacherId, day, period) ==
    \E k \in 1..n :
        /\ schedule[k].teacherId = teacherId
        /\ schedule[k].day = day
        /\ schedule[k].period = period

\* The teacher satisfies both conditions for the slot of the n-th entry, given
\* the entries placed before it.
FreeFor(schedule, n, teacher) ==
    /\ ListAllows(teacher, schedule[n])
    /\ ~BookedAmong(schedule, n - 1, teacher.id, schedule[n].day, schedule[n].period)

\* The n-th entry has the first teacher, in roster order of the eligible set of
\* a constraint of its class and subject, that satisfies both conditions.
FirstFreePicked(c, n) ==
    \E k \in 1..Len(c.constraints) :
        /\ c.constraints[k].classId = c.schedule[n].classId
        /\ c.constraints[k].subjectId = c.schedule[n].subjectId
        /\ LET eligible == EligibleOf(c.teachers, c.constraints[k])
           IN  \E i \in 1..Len(eligible) :
                  /\ eligible[i].id = c.schedule[n].teacherId
                  /\ FreeFor(c.schedule, n, eligible[i])
                  /\ \A j \in 1..(i - 1) : ~FreeFor(c.schedule, n, eligible[j])

\* C26: every entry of a solveSchedule run has the first teacher, in roster
\* order of the eligible set, who is available in the slot and not yet booked in
\* its (day, period); a teacher who fails either condition is not assigned.
C26_FirstFreeTeacherPicked ==
    \A p \in DOMAIN calls :
        \A n \in 1..Len(calls[p].schedule) : FirstFreePicked(calls[p], n)

\* The call is in the walk of a constraint; the entries placed for it so far
\* are the last periodsScheduled entries of the schedule.
InWalk(c) == c.pc = "forTimeSlot"

PlacedInWalk(c) ==
    {n \in 1..Len(c.schedule) : n > Len(c.schedule) - c.periodsScheduled}

\* The walk has gone through the whole grid.
WalkOver(c) == InWalk(c) /\ c.prioritizedTimeSlots = {}

IsPreferred(constraint, teacherId) ==
    \E i \in 1..Len(constraint.preferredTeachers) :
        constraint.preferredTeachers[i] = teacherId

\* C21: for a constraint with preferred teachers, every entry placed has a
\* preferred teacher if some preferred teacher is active and qualified for the
\* subject; if none is, the eligible teachers are all active qualified ones.
C21_PreferredTeacherBinding ==
    \A p \in DOMAIN calls :
        LET c == calls[p] IN
        InWalk(c) /\ Len(c.constraint.preferredTeachers) > 0 =>
            IF Len(PreferredOf(c.teachers, c.constraint)) > 0
            THEN \A n \in PlacedInWalk(c) : IsPreferred(c.constraint, c.schedule[n].teacherId)
            ELSE /\ c.eligibleTeachers = QualifiedOf(c.teachers, c.constraint.subjectId)
                 /\ \A n \in PlacedInWalk(c) :
                       \E i \in 1..Len(c.eligibleTeachers) :
                           c.eligibleTeachers[i].id = c.schedule[n].teacherId

\* The walk of a constraint with a valid preferred teacher is over and has
\* placed fewer periods than needed, while another active qualified teacher is
\* free in a slot the class has free.
C21_Witness ==
    \E p \in DOMAIN calls :
        LET c == calls[p] IN
        /\ WalkOver(c)
        /\ Len(c.constraint.preferredTeachers) > 0
        /\ Len(PreferredOf(c.teachers, c.constraint)) > 0
        /\ c.periodsScheduled > 0
        /\ c.periodsScheduled < c.constraint.periodsNeeded
        /\ \E i \in 1..Len(c.teachers), s \in 1..Len(timeSlots) :
              /\ c.teachers[i].isActive
              /\ c.constraint.subjectId \in c.teachers[i].subjects
              /\ ~IsPreferred(c.constraint, c.teachers[i].id)
              /\ c.teachers[i].availability[timeSlots[s].day] = {}
              /\ \A n \in 1..Len(c.schedule) :
                    ~(c.schedule[n].day = timeSlots[s].day
                        /\ c.schedule[n].period = timeSlots[s].period)

-----------------------------------------------------------------------------
(* The teacher of every entry of solveSchedule *)

\* The teachers of the roster with this id.
TeachersNamed(roster, teacherId) ==
    {i \in 1..Len(roster) : roster[i].id = teacherId}

\* The teacher the entry names is in the roster, active, holds the entry's
\* subject, and has a list for the entry's day that is empty or holds the
\* entry's startTime-endTime.
TeacherFits(roster, entry) ==
    /\ TeachersNamed(roster, entry.teacherId) # {}
    /\ \A i \in TeachersNamed(roster, entry.teacherId) :
          /\ roster[i].isActive
          /\ entry.subjectId \in roster[i].subjects
          /\ ListAllows(roster[i], entry)

\* solveSchedule is about to return: no constraint is left.
AboutToReturn(c) == c.pc = "forConstraint" /\ c.shuffledConstraints = <<>>

\* C22: every entry of the schedule solveSchedule builds and returns names a
\* teacher who is active, holds the entry's subject, and whose availability list
\* for the entry's day is empty or contains the entry's startTime-endTime.
C22_EntryTeacherFits ==
    \A p \in DOMAIN calls :
        InSolver(calls[p]) =>
            \A n \in 1..Len(calls[p].schedule) :
                TeacherFits(calls[p].teachers, calls[p].schedule[n])

\* A run about to return an entry of a teacher with a list for the day, from a
\* roster with an inactive teacher who holds the entry's subject.
C22_Witness ==
    \E p \in DOMAIN calls :
        LET c == calls[p] IN
        /\ AboutToReturn(c)
        /\ \E n \in 1..Len(c.schedule) :
              /\ \E i \in TeachersNamed(c.teachers, c.schedule[n].teacherId) :
                    c.teachers[i].availability[c.schedule[n].day] # {}
              /\ \E j \in 1..Len(c.teachers) :
                    /\ ~c.teachers[j].isActive
                    /\ c.schedule[n].subjectId \in c.teachers[j].subjects

-----------------------------------------------------------------------------
(* How many periods a constraint gets *)

\* The entries of the schedule of this class and subject.
EntriesOf(schedule, classId, subjectId) ==
    {n \in 1..Len(schedule) :
        schedule[n].classId = classId /\ schedule[n].subjectId = subjectId}

\* The periods the constraints of this class and subject ask for together, a
\* zero or negative periodsNeeded asking for none.
RECURSIVE PeriodsAsked(_, _, _)
PeriodsAsked(constraints, classId, subjectId) ==
    IF constraints = <<>> THEN 0
    ELSE LET first == Head(constraints)
             asked == IF /\ first.classId = classId
                         /\ first.subjectId = subjectId
                         /\ first.periodsNeeded > 0
                      THEN first.periodsNeeded ELSE 0
         IN  asked + PeriodsAsked(Tail(constraints), classId, subjectId)

\* The class has an entry in the slot.
ClassHolds(schedule, classId, timeSlot) ==
    \E n \in 1..Len(schedule) :
        /\ schedule[n].classId = classId
        /\ schedule[n].day = timeSlot.day
        /\ schedule[n].period = timeSlot.period

\* The class has DailyLimit entries of the subject on the day.
DayAtCap(schedule, classId, subjectId, day) ==
    Cardinality({n \in EntriesOf(schedule, classId, subjectId) :
                    schedule[n].day = day}) >= DailyLimit

\* An eligible teacher of the constraint whose list allows the slot and who has
\* no entry in its (day, period).
TeacherFreeIn(c, timeSlot) ==
    LET eligible == EligibleOf(c.teachers, c.constraint)
    IN  \E i \in 1..Len(eligible) :
           /\ ListAllows(eligible[i], timeSlot)
           /\ ~BookedAmong(c.schedule, Len(c.schedule), eligible[i].id,
                           timeSlot.day, timeSlot.period)

Blocked(c, timeSlot) ==
    \/ ClassHolds(c.schedule, c.constraint.classId, timeSlot)
    \/ DayAtCap(c.schedule, c.constraint.classId, c.constraint.subjectId, timeSlot.day)
    \/ ~TeacherFreeIn(c, timeSlot)

UnderFilled(c) == WalkOver(c) /\ c.periodsScheduled < c.constraint.periodsNeeded

\* C23: a constraint gets at most periodsNeeded entries, none when periodsNeeded
\* is zero or negative; when its walk ends with fewer, every slot of the grid is
\* occupied for the class, on a day at the cap of DailyLimit, or without an
\* eligible teacher who is available and not booked in that (day, period).
C23_AtMostNeededAndShortOnlyIfBlocked ==
    \A p \in DOMAIN calls :
        LET c == calls[p] IN
        /\ InSolver(c) =>
              \A k \in 1..Len(c.constraints) :
                  Cardinality(EntriesOf(c.schedule, c.constraints[k].classId,
                                        c.constraints[k].subjectId))
                      <= PeriodsAsked(c.constraints, c.constraints[k].classId,
                                      c.constraints[k].subjectId)
        /\ InWalk(c) =>
              /\ c.periodsScheduled <= Len(c.schedule)
              /\ c.periodsScheduled <= IF c.constraint.periodsNeeded > 0
                                       THEN c.constraint.periodsNeeded ELSE 0
              /\ \A n \in PlacedInWalk(c) :
                    /\ c.schedule[n].classId = c.constraint.classId
                    /\ c.schedule[n].subjectId = c.constraint.subjectId
        /\ UnderFilled(c) =>
              \A s \in 1..Len(timeSlots) : Blocked(c, timeSlots[s])

\* A walk that ended short of periodsNeeded with a slot that the class has free
\* and a teacher could take, on a day at the cap.
C23_Witness ==
    \E p \in DOMAIN calls :
        LET c == calls[p] IN
        /\ UnderFilled(c)
        /\ c.periodsScheduled = DailyLimit
        /\ \E s \in 1..Len(timeSlots) :
              /\ ~ClassHolds(c.schedule, c.constraint.classId, timeSlots[s])
              /\ TeacherFreeIn(c, timeSlots[s])
              /\ DayAtCap(c.schedule, c.constraint.classId, c.constraint.subjectId,
                          timeSlots[s].day)

-----------------------------------------------------------------------------
(* The constraints solveSchedule skips *)

\* The subject of the constraint is not in the list of subjects, or no teacher
\* is eligible for it.
Skippable(c, constraint) ==
    \/ \A i \in 1..Len(c.subjects) : c.subjects[i].id # constraint.subjectId
    \/ Len(EligibleOf(c.teachers, constraint)) = 0

\* The loop over the constraints is at a constraint of that kind.
AtSkippable(c) ==
    /\ c.pc = "forConstraint"
    /\ c.shuffledConstraints # <<>>
    /\ Skippable(c, Head(c.shuffledConstraints))

\* C24: a constraint whose subject id does not resolve, or whose eligible set is
\* empty, contributes no entry and changes neither the occupation of the slots
\* nor the daily counts: the loop goes on to the next constraint.
C24_SkippedConstraintLeavesNoTrace ==
    [][\A p \in DOMAIN calls :
          AtSkippable(calls[p]) =>
              /\ calls'[p].schedule = calls[p].schedule
              /\ calls'[p].assignments = calls[p].assignments
              /\ calls'[p].dailySubjectCount = calls[p].dailySubjectCount
              /\ calls'[p].pc = "forConstraint"
              /\ calls'[p].shuffledConstraints = Tail(calls[p].shuffledConstraints)]_vars

\* A run about to return entries of one constraint and none of another that it
\* skipped: one whose subject does not resolve though a teacher holds it, and
\* the run has passed it.
C24_Witness ==
    \E p \in DOMAIN calls :
        LET c == calls[p] IN
        /\ AboutToReturn(c)
        /\ Len(c.schedule) > 0
        /\ \E k \in 1..Len(c.constraints) :
              /\ Skippable(c, c.constraints[k])
              /\ c.constraints[k].periodsNeeded > 0
              /\ Len(QualifiedOf(c.teachers, c.constraints[k].subjectId)) > 0
              /\ EntriesOf(c.schedule, c.constraints[k].classId,
                           c.constraints[k].subjectId) = {}

-----------------------------------------------------------------------------
(* The same subject in consecutive periods *)

\* The active rows of a class on a day.
ActiveOfDay(classId, day) ==
    {n \in 1..Len(timetableEntries) :
        /\ timetableEntries[n].isActive
        /\ timetableEntries[n].classId = classId
        /\ timetableEntries[n].day = day}

\* Two active rows of a class on a day with the same subject and no active row
\* of that class and day in a period between theirs: adjacent in the day's
\* sequence ordered by period.
AdjacentByPeriod ==
    \E m, n \in 1..Len(timetableEntries) :
        LET a == timetableEntries[m]
            b == timetableEntries[n]
        IN  /\ m \in ActiveOfDay(a.classId, a.day)
            /\ n \in ActiveOfDay(a.classId, a.day)
            /\ a.subjectId = b.subjectId
            /\ a.period < b.period
            /\ \A k \in ActiveOfDay(a.classId, a.day) :
                  ~(a.period < timetableEntries[k].period
                      /\ timetableEntries[k].period < b.period)

\* C27: suggestOptimizations gives the message about the same subject in
\* consecutive periods exactly when some class has, on some day, two active
\* entries of the same subject adjacent in the day's sequence ordered by period,
\* whatever the order in which the entries are retrieved.
C27_ConsecutiveIffAdjacentByPeriod ==
    \A p \in DOMAIN calls :
        Suggested(calls[p]) =>
            (Suggests(calls[p], AvoidConsecutive) <=> AdjacentByPeriod)

====
